---- MODULE Spec2Model ----
(***************************************************************************)
(* A model of the telemetry acquisition and simulation engine of the       *)
(* water-monitoring dashboard (src/app.py, with the reconnect routes of    *)
(* src/run.py): the serial link functions connect_to_drone and             *)
(* connect_to_buoy, the two simulator threads, the data_logger thread and  *)
(* the real-time snapshot routes.                                          *)
(*                                                                         *)
(* Numbers.  Every channel value and threshold is an integer number of     *)
(* thousandths of its unit (28.0 degrees C is 28000), so the arithmetic of *)
(* the simulators is integer arithmetic.  A random.uniform(-a, a) draw is  *)
(* u * a for a drawn u in -1 .. 1, a numpy sine is a drawn number of       *)
(* thousandths.                                                            *)
(*                                                                         *)
(* Time.  A thread that sleeps may wake at any later moment.  The only     *)
(* clock value the program computes with is the difference current_time -  *)
(* ballast_start_time of drone_data_simulator: the model keeps that        *)
(* difference (time_since_start), and a tick of the drone simulator draws  *)
(* the seconds elapsed since the tick before it from ElapsedDraws.  A      *)
(* timestamp (drone_last_update, buoy_last_update) is the number of the    *)
(* tick that wrote it.                                                     *)
(*                                                                         *)
(* Threads.  One step of a thread is one action.  Code that runs with      *)
(* drone_data_lock held is one step (every other access to the data it     *)
(* touches takes the lock too, drone_connected excepted, which the step    *)
(* writes once).  The buoy simulator and the readers of the buoy globals   *)
(* take no lock: each of their reads and writes of a global is a step.     *)
(*                                                                         *)
(* The standalone simulator (src/simulation.py) is modelled too: the       *)
(* sensors of DroneSimulation and BuoySimulation, update_position (the     *)
(* positions are integers in units of 1e-7 degree, the battery in          *)
(* thousandths of a percent), the two loops of SimulationServer with its   *)
(* stop, and the real-time and historical routes of its web API.  Where a  *)
(* property is about real time, now is the clock in seconds.               *)
(*                                                                         *)
(* Position and battery of app.py's drone.  Lines 408-434 of               *)
(* drone_data_simulator read and write three globals that no other line of *)
(* the tick reads; the battery loses a fixed amount at every tick, so a    *)
(* state with the battery in it never comes back before some 15000 ticks.  *)
(* DroneTick is the tick on the channels, the ballast event and the        *)
(* timestamp, DroneMove is lines 408-434; the specification SpecGps, which *)
(* is about the values of the position and the battery, takes both in one  *)
(* step, the others take DroneTick and do not look at the three globals.   *)
(* SpecAtomic, which is about who reads what under drone_data_lock, takes  *)
(* the tick assignment group by assignment group and keeps, for each group *)
(* of globals, the number of the tick that wrote it last instead of its    *)
(* value.                                                                  *)
(*                                                                         *)
(* Left out: the buoy's weather, solar and battery values (app.py lines    *)
(* 485-502), the camera, the users and the export routes.                  *)
(***************************************************************************)
EXTENDS Integers, Sequences, FiniteSets, TLC

(***************************************************************************)
(* Program constants (src/app.py).                                         *)
(***************************************************************************)
DRONE_TURBIDITY_THRESHOLD == 41000
DRONE_TEMPERATURE_THRESHOLD == 32000
DRONE_CONDUCTIVITY_THRESHOLD == 12000
DRONE_PH_THRESHOLD_LOW == 6500
DRONE_PH_THRESHOLD_HIGH == 7500
DRONE_DO_THRESHOLD == 5000

BUOY_TURBIDITY_THRESHOLD == 10000
BUOY_TEMPERATURE_THRESHOLD == 30000
BUOY_CONDUCTIVITY_THRESHOLD == 10000
BUOY_PH_THRESHOLD_LOW == 6000
BUOY_PH_THRESHOLD_HIGH == 8500
BUOY_PRESSURE_THRESHOLD == 2000
BUOY_DO_THRESHOLD == 4000

ALERT_THRESHOLD == 3

DRONE_SERIAL_PORT == "COM4"
BUOY_SERIAL_PORT == "COM5"
MAX_RECONNECT_ATTEMPTS == 50

\* The base values of drone_data_simulator and of buoy_data_simulator.
drone_base_temperature == 28000
drone_base_turbidity == 35000
drone_base_conductivity == 10000
drone_base_ph == 7000
drone_base_do == 6000

buoy_base_temperature == 26000
buoy_base_turbidity == 8000
buoy_base_conductivity == 8000
buoy_base_ph == 7200
buoy_base_do == 5500
buoy_base_pressure == 1500

\* random.randint(30, 180): the range of a ballast event's duration, seconds.
BALLAST_MIN_DURATION == 30
BALLAST_MAX_DURATION == 180
\* time.sleep(2): the least time between two ticks of the drone simulator.
DRONE_TICK_SECONDS == 2

(***************************************************************************)
(* Bounds of the model.                                                    *)
(***************************************************************************)
\* The seconds between two drone ticks are ElapsedStep or twice ElapsedStep.
ElapsedStep == 15
\* Ticks of a simulator are numbered 1 .. TickIds, cyclically.
TickIds == 2
\* comports() returns at most MaxPorts ports.
MaxPorts == 2
\* A connect call starts only while the unit's counter is below MaxAttempts.
MaxAttempts == 2
\* The clock runs from 0 to MaxClock seconds.
MaxClock == 3
\* Where SimulationServer.stop is in the model, a loop starts an iteration only
\* while its history holds fewer than MaxTicks datasets.
MaxTicks == 1

None == 0 - 1
NoPort == "None"

Max(a, b) == IF a >= b THEN a ELSE b
Min(a, b) == IF a <= b THEN a ELSE b
Abs(x) == IF x >= 0 THEN x ELSE 0 - x

Units == {"drone", "buoy"}

DroneChannels == {"temperature", "turbidity", "conductivity", "ph", "do"}
BuoyChannels == {"temperature", "turbidity", "conductivity", "ph", "do", "pressure"}

\* The draws of a tick: the midpoint of every random.uniform interval and a sine
\* of 0 (MidDraws), or the two ends of every interval and the two extreme sines
\* (EndDraws).  u: the random.uniform draws, as a fraction of the half-width; s:
\* the sines, in thousandths; flip: the draw of line 384, random.random() > 0.5.
\* start: the draw of line 365, random.random() < 0.1; dur: the draw of line 368;
\* dt: the seconds between the clock reads of two successive drone ticks.
DurationDraws == {BALLAST_MIN_DURATION, 2 * BALLAST_MIN_DURATION}
ElapsedDraws == {ElapsedStep, 2 * ElapsedStep}
MidDraws ==
    [u |-> {0}, s |-> {0}, flip |-> {TRUE}, start |-> BOOLEAN,
     dur |-> DurationDraws, dt |-> ElapsedDraws]
EndDraws ==
    [u |-> {0 - 1, 1}, s |-> {0 - 1000, 1000}, flip |-> BOOLEAN, start |-> BOOLEAN,
     dur |-> DurationDraws, dt |-> ElapsedDraws]
\* No ballast event is drawn.
QuietDraws == [MidDraws EXCEPT !.start = {FALSE}]

NextTick(t) == (t % TickIds) + 1

\* The serial ports the machine may have, and what `word in text` gives on their
\* names.
Ports ==
    {[device |-> "COM3", description |-> "Arduino Uno"],
     [device |-> "COM5", description |-> "Standard Serial Port"],
     [device |-> "/dev/ttyUSB0", description |-> "USB Serial"],
     [device |-> "COM7", description |-> "Bluetooth Link"]}
Contains(text, word) ==
    <<text, word>> \in
        {<<"Arduino Uno", "Arduino">>, <<"USB Serial", "USB">>, <<"COM5", "COM5">>,
         <<"/dev/ttyUSB0", "ttyUSB">>, <<"/dev/ttyUSB0", "USB">>}
\* The lists comports() may return: no port twice.
PortLists ==
    {l \in UNION {[1 .. n -> Ports] : n \in 0 .. MaxPorts} :
        \A i, j \in 1 .. Len(l) : l[i] = l[j] => i = j}

VARIABLES
    \* the serial links (app.py 77-86, 105), by unit: drone_ser and buoy_ser ...
    ser,                    \* "None", "open", or "closed" (closed, still referenced)
    connected,              \* drone_connected, buoy_connected
    reconnect_attempts,     \* drone_reconnect_attempts, buoy_reconnect_attempts
    main_pc,                \* __main__: "connect" (line 1553), then "serving"
    call,                   \* the running connect_to_drone / connect_to_buoy call
                            \* of the main thread and of a request thread
    run_connected,          \* run.py: drone_connected, buoy_connected
    \* the drone snapshot (app.py 95-105) and the simulator's locals
    drone_data_lock,        \* "free", or the thread that holds it
    latest_drone,           \* latest_drone_<channel>, None before the first value
    drone_last_update,      \* the tick that wrote the snapshot, 0 for None
    drone_pc,               \* drone_data_simulator: "sleep", "locked"
    ballast_event,
    ballast_duration,
    time_since_start,       \* the local of line 373, current_time -
                            \* ballast_start_time at the latest tick of an
                            \* event; None before the first event
    \* the buoy snapshot (app.py 108-122) and the simulator's locals
    latest_buoy,            \* latest_buoy_<channel>: [v: value, t: writing tick]
    buoy_last_update,
    buoy_pc,                \* "sleep", "write", "aux", "stamp", "except"
    buoy_next,              \* the next assignment of lines 477-482, 1..6
    buoy_tick,              \* the number of the running tick
    tidal_factor,
    diurnal_factor,
    \* data_logger (app.py 512-626)
    logger_pc,
    logger_next,            \* the next buoy global to read
    drone_data_available,
    drone_copy,             \* drone_temp, drone_turb, drone_cond, drone_ph, drone_do
    drone_copy_update,      \* the tick that wrote the values of drone_copy
    buoy_data_available,
    buoy_checked,           \* the buoy values as lines 581-592 read them
    buoy_entry,             \* the buoy values as lines 597-602 read them
    threshold_count,
    above_threshold,
    session,                \* db.session: what this iteration added
    drone_logged,           \* the tick of the reading of the last drone record
    \* the real-time routes (app.py 1065-1089, 1151-1182)
    drone_route_pc,
    buoy_route_pc,
    buoy_route_next,
    buoy_response,
    \* the clock, and the clock values of app.py's simulator threads
    now,                    \* datetime.now(), in seconds after the start
    sleep_until,            \* by unit, the moment the simulator's time.sleep ends
    buoy_current_time,      \* buoy_data_simulator: current_time, line 467
    last_update_time,       \* by unit, the clock value that drone_last_update or
                            \* buoy_last_update holds, None before the first
    \* simulation.py: DroneSimulation, BuoySimulation, SimulationServer
    latitude,               \* DroneSimulation.latitude, in 1e-7 degrees
    longitude,
    battery,                \* DroneSimulation.battery, in thousandths of a percent
    current_waypoint,       \* an index of waypoints, from 0
    pressure_base_value,    \* BuoySimulation.pressure_sim.base_value
    generated,              \* by unit, what generate_data returned last
    running,                \* SimulationServer.running
    serial_port,            \* drone_serial, buoy_serial: "None", "open", "closed"
    loop_pc,                \* by unit, where the simulation loop of the unit is
    loop_wake,              \* by unit, the moment the loop's time.sleep ends
    data_history,           \* drone_data_history, buoy_data_history
    api_response,           \* by unit, the answer to the latest real-time query
    serial_data,            \* by unit, the line that get_serial_data returned last
    \* app.py 101-103: the position and the battery of the drone
    latest_drone_latitude,  \* in 1e-7 degrees
    latest_drone_longitude,
    latest_drone_battery,   \* in thousandths of a percent
    \* the tick that wrote each part of the drone snapshot, and what each
    \* reader under drone_data_lock saw
    drone_written,          \* channels, position, battery: the number of the tick
                            \* that assigned them last, 0 for none
    drone_seen              \* by reader: the numbers of the ticks that wrote
                            \* what it read, and the drone_last_update it read

link_vars == <<ser, connected, reconnect_attempts, main_pc, call>>
run_vars == <<run_connected>>
link_rest == <<ser, reconnect_attempts, main_pc, call>>
drone_vars ==
    <<latest_drone, drone_last_update, drone_pc, ballast_event, ballast_duration,
      time_since_start>>
buoy_vars ==
    <<latest_buoy, buoy_last_update, buoy_pc, buoy_next, buoy_tick, tidal_factor,
      diurnal_factor>>
logger_vars ==
    <<logger_pc, logger_next, drone_data_available, drone_copy, drone_copy_update,
      buoy_data_available, buoy_checked, buoy_entry, threshold_count,
      above_threshold, session, drone_logged>>
route_vars == <<drone_route_pc, buoy_route_pc, buoy_route_next, buoy_response>>

time_vars == <<sleep_until, buoy_current_time, last_update_time>>
sim_vars ==
    <<latitude, longitude, battery, current_waypoint, pressure_base_value,
      generated, running, serial_port, loop_pc, loop_wake, data_history,
      api_response, serial_data>>
position_vars ==
    <<latest_drone_latitude, latest_drone_longitude, latest_drone_battery>>
far_rest == <<now, time_vars, sim_vars>>
\* The variables that the untimed threads of app.py leave alone.
tag_vars == <<drone_written, drone_seen>>
far_vars == <<far_rest, position_vars, tag_vars>>
app_vars ==
    <<link_vars, run_vars, drone_data_lock, drone_vars, buoy_vars, logger_vars,
      route_vars, position_vars, tag_vars>>

vars == <<app_vars, far_vars>>

(***************************************************************************)
(* connect_to_drone (app.py 267-303), connect_to_buoy (app.py 306-338).    *)
(***************************************************************************)
Requests == {"request_1", "request_2"}
Callers == {"main"} \cup Requests

\* The locals of a call: unit, the function running (connect_to_<unit>); ports
\* and port, the enumerated ports and the one selected; read, the counter as the
\* += of line 301 read it; result, its return value.  Two values only record
\* what happened: before, the counter when the call began, and reset_done,
\* whether the call has run line 292.
IdleCall ==
    [pc |-> "idle", unit |-> "none", ports |-> <<>>, port |-> NoPort, read |-> 0,
     before |-> 0, reset_done |-> FALSE, result |-> FALSE]

\* Lines 278-282: the first port whose description holds 'Arduino' or 'USB'.
RECURSIVE DroneScan(_, _)
DroneScan(ports, i) ==
    IF i > Len(ports) THEN NoPort
    ELSE IF Contains(ports[i].description, "Arduino")
            \/ Contains(ports[i].description, "USB")
         THEN ports[i].device
         ELSE DroneScan(ports, i + 1)

\* Lines 316-320: the first port whose device holds 'COM5' or 'ttyUSB'.
RECURSIVE BuoyScan(_, _)
BuoyScan(ports, i) ==
    IF i > Len(ports) THEN NoPort
    ELSE IF Contains(ports[i].device, "COM5") \/ Contains(ports[i].device, "ttyUSB")
         THEN ports[i].device
         ELSE BuoyScan(ports, i + 1)

\* Lines 278-288.
DronePort(ports) ==
    LET found == DroneScan(ports, 1)
        first == IF found = NoPort /\ ports # <<>> THEN ports[1].device ELSE found
    IN  IF first = NoPort THEN DRONE_SERIAL_PORT ELSE first

\* connect_to_buoy with the level of lines 284-285, which it does not have.
BuoyPortFirst(ports) ==
    LET found == BuoyScan(ports, 1)
        first == IF found = NoPort /\ ports # <<>> THEN ports[1].device ELSE found
    IN  IF first = NoPort THEN BUOY_SERIAL_PORT ELSE first

\* Lines 316-323.
BuoyPort(ports) ==
    LET found == BuoyScan(ports, 1)
    IN  IF found = NoPort THEN BUOY_SERIAL_PORT ELSE found

SelectPort(u, ports) == IF u = "drone" THEN DronePort(ports) ELSE BuoyPort(ports)

\* A failed call that would reset the counter.
FailedAttemptsZero(read) == 0

\* Lines 301, 336: the counter after a failed call, from the value the += read.
FailedAttempts(read) == read + 1

\* Lines 292, 327: the counter after the port was opened.
OpenedAttempts == 0

\* A call begins: the thread c enters connect_to_<u>.  The main thread calls
\* connect_to_drone once (line 1553) before it serves requests (line 1555); a
\* request thread runs reconnect_drone or reconnect_buoy (lines 1246-1262).
CallStart(c, u) ==
    /\ call[c].pc = "idle"
    /\ IF c = "main" THEN main_pc = "connect" /\ u = "drone"
       ELSE c \in Requests /\ main_pc = "serving"
    /\ reconnect_attempts[u] < MaxAttempts
    /\ call' = [call EXCEPT ![c] = [IdleCall EXCEPT !.pc = "close", !.unit = u,
                                                     !.before = reconnect_attempts[u]]]
    /\ UNCHANGED <<ser, connected, reconnect_attempts, main_pc>>

MainConnect == CallStart("main", "drone")
reconnect_drone(c) == CallStart(c, "drone")
reconnect_buoy(c) == CallStart(c, "buoy")

\* Lines 271-272: close the port held, which may raise.
ConnectClose(c) ==
    LET u == call[c].unit IN
    /\ call[c].pc = "close"
    /\ \/ /\ ser[u] # "open"
          /\ call' = [call EXCEPT ![c].pc = "comports"]
          /\ UNCHANGED ser
       \/ /\ ser[u] = "open"
          /\ ser' = [ser EXCEPT ![u] = "closed"]
          /\ call' = [call EXCEPT ![c].pc = "comports"]
       \/ /\ ser[u] = "open"
          /\ call' = [call EXCEPT ![c].pc = "except"]
          /\ UNCHANGED ser
    /\ UNCHANGED <<connected, reconnect_attempts, main_pc>>

\* Lines 274-288: enumerate the ports, which may raise, and select one.
ConnectPorts(c) ==
    LET u == call[c].unit IN
    /\ call[c].pc = "comports"
    /\ \/ \E l \in PortLists :
             call' = [call EXCEPT ![c].pc = "open", ![c].ports = l,
                                  ![c].port = SelectPort(u, l)]
       \/ call' = [call EXCEPT ![c].pc = "except"]
    /\ UNCHANGED <<ser, connected, reconnect_attempts, main_pc>>

\* Line 290: serial.Serial(port, ...) opens the port or raises.
ConnectOpen(c) ==
    LET u == call[c].unit IN
    /\ call[c].pc = "open"
    /\ \/ /\ ser' = [ser EXCEPT ![u] = "open"]
          /\ call' = [call EXCEPT ![c].pc = "connected", ![c].ports = <<>>]
       \/ /\ call' = [call EXCEPT ![c].pc = "except", ![c].ports = <<>>]
          /\ UNCHANGED ser
    /\ UNCHANGED <<connected, reconnect_attempts, main_pc>>

\* Line 291.
ConnectSetConnected(c) ==
    LET u == call[c].unit IN
    /\ call[c].pc = "connected"
    /\ connected' = [connected EXCEPT ![u] = TRUE]
    /\ call' = [call EXCEPT ![c].pc = "reset"]
    /\ UNCHANGED <<ser, reconnect_attempts, main_pc>>

\* Line 292.
ConnectReset(c) ==
    LET u == call[c].unit IN
    /\ call[c].pc = "reset"
    /\ reconnect_attempts' = [reconnect_attempts EXCEPT ![u] = OpenedAttempts]
    /\ call' = [call EXCEPT ![c].pc = "flush", ![c].reset_done = TRUE]
    /\ UNCHANGED <<ser, connected, main_pc>>

\* Lines 294-296: flushInput() may raise; if it does not, the call returns True.
ConnectFlush(c) ==
    /\ call[c].pc = "flush"
    /\ \/ call' = [call EXCEPT ![c].pc = "return", ![c].result = TRUE]
       \/ call' = [call EXCEPT ![c].pc = "except"]
    /\ UNCHANGED <<ser, connected, reconnect_attempts, main_pc>>

\* Line 299.
ConnectExcept(c) ==
    LET u == call[c].unit IN
    /\ call[c].pc = "except"
    /\ ser' = [ser EXCEPT ![u] = "None"]
    /\ call' = [call EXCEPT ![c].pc = "disconnect"]
    /\ UNCHANGED <<connected, reconnect_attempts, main_pc>>

\* Line 300.
ConnectDisconnect(c) ==
    LET u == call[c].unit IN
    /\ call[c].pc = "disconnect"
    /\ connected' = [connected EXCEPT ![u] = FALSE]
    /\ call' = [call EXCEPT ![c].pc = "read"]
    /\ UNCHANGED <<ser, reconnect_attempts, main_pc>>

\* Line 301, the read of drone_reconnect_attempts += 1.
ConnectRead(c) ==
    LET u == call[c].unit IN
    /\ call[c].pc = "read"
    /\ call' = [call EXCEPT ![c].pc = "write", ![c].read = reconnect_attempts[u]]
    /\ UNCHANGED <<ser, connected, reconnect_attempts, main_pc>>

\* Line 301, the write, and lines 302-303: the call returns False.
ConnectWrite(c) ==
    LET u == call[c].unit IN
    /\ call[c].pc = "write"
    /\ reconnect_attempts' =
           [reconnect_attempts EXCEPT ![u] = FailedAttempts(call[c].read)]
    /\ call' = [call EXCEPT ![c].pc = "return", ![c].result = FALSE]
    /\ UNCHANGED <<ser, connected, main_pc>>

\* The caller takes the result: the main thread goes on to app.run (line 1555),
\* a request thread answers 'success' or 'error' (lines 1250-1253).
ConnectReturn(c) ==
    /\ call[c].pc = "return"
    /\ call' = [call EXCEPT ![c] = IdleCall]
    /\ main_pc' = IF c = "main" THEN "serving" ELSE main_pc
    /\ UNCHANGED <<ser, connected, reconnect_attempts>>

(***************************************************************************)
(* run.py: the link is simulated.                                          *)
(***************************************************************************)
\* run.py 789-801: reconnect_drone and reconnect_buoy.
RunReconnect(u) == run_connected' = [run_connected EXCEPT ![u] = TRUE]

\* run.py 240, 318, 338, 379: the simulators set the flag when they start and
\* at every tick.
RunSimulatorTick(u) == run_connected' = [run_connected EXCEPT ![u] = TRUE]

(***************************************************************************)
(* drone_data_simulator (app.py 341-446).                                  *)
(***************************************************************************)
\* A value left as it is.
Unclamped(lo, hi, x) == x

\* max(lo, min(hi, x)): lines 402-406, 424-425.
Clamp(lo, hi, x) == Max(lo, Min(hi, x))

\* An intensity without the factor 4: a quarter at the middle of the event.
IntensityUnscaled(elapsed, duration) ==
    (1000 * elapsed * (duration - elapsed)) \div (duration * duration)

\* Lines 377-378: intensity = 4 * progress * (1 - progress), with
\* progress = time_since_start / ballast_duration.
Intensity(elapsed, duration) ==
    (4000 * elapsed * (duration - elapsed)) \div (duration * duration)

\* Lines 381-385: the readings during a ballast event, before the clamp.
BallastReading(intensity, u, flip) ==
    [temperature |-> drone_base_temperature + 4 * intensity + u * 500,
     turbidity |-> drone_base_turbidity + 20 * intensity + u * 2000,
     conductivity |-> drone_base_conductivity + 6 * intensity + u * 300,
     ph |-> drone_base_ph
            + (IF flip THEN (8 * intensity) \div 10 ELSE 0 - ((8 * intensity) \div 10))
            + u * 100,
     do |-> drone_base_do - 2 * intensity + u * 200]

\* Lines 395-399: the normal variations, before the clamp.
NormalReading(u, s) ==
    [temperature |-> drone_base_temperature + u * 2000 + s \div 2,
     turbidity |-> Max(0, drone_base_turbidity + u * 5000 + 2 * s),
     conductivity |-> drone_base_conductivity + u * 1000 + (3 * s) \div 10,
     ph |-> drone_base_ph + u * 200 + s \div 10,
     do |-> drone_base_do + u * 500 + s \div 5]

\* Lines 402-406.
ClampDrone(r) ==
    [temperature |-> Clamp(20000, 36000, r.temperature),
     turbidity |-> Clamp(0, 60000, r.turbidity),
     conductivity |-> Clamp(5000, 18000, r.conductivity),
     ph |-> Clamp(6000, 8200, r.ph),
     do |-> Clamp(3000, 10000, r.do)]

\* Lines 409-410, in 1e-7 degrees, and the 0.001 of lines 424-425.
center_lat == 42105000
center_lon == 64375000
position_box == 10000

\* Lines 101-103.
PositionInit ==
    /\ latest_drone_latitude = center_lat
    /\ latest_drone_longitude = center_lon
    /\ latest_drone_battery = 85000

\* Lines 417, 420, 424: one coordinate after the random offset and the return
\* of a hundredth of the way to the centre.
Moved(center, x, offset) ==
    Clamp(center - position_box, center + position_box,
          x + offset + (center - x) \div 100)

\* Lines 428-433: the drain, 0.005 in a ballast event and 0.003 otherwise,
\* and the recharge; recharge: random.random() < 0.05.
Recharged(level, recharge) ==
    IF level < 20000 /\ recharge THEN Min(100000, level + 30000) ELSE level
BatteryAfter(level, event, recharge) ==
    Recharged(Max(10000, level - (IF event THEN 5 ELSE 3)), recharge)

\* Lines 408-434.  lat_offset, lon_offset: (random.random() - 0.5) * 0.0002.
DroneMove(lat_offset, lon_offset, recharge) ==
    /\ latest_drone_latitude' = Moved(center_lat, latest_drone_latitude, lat_offset)
    /\ latest_drone_longitude' =
           Moved(center_lon, latest_drone_longitude, lon_offset)
    /\ latest_drone_battery' =
           BatteryAfter(latest_drone_battery, ballast_event', recharge)

\* The readers of the drone snapshot that take drone_data_lock.
LockedReaders == {"data_logger", "get_drone_real_time_data"}

\* No tick has written, no reader has read.
NothingSeen == [channels |-> 0, position |-> 0, battery |-> 0, stamp |-> 0]
TagInit ==
    /\ drone_written = [channels |-> 0, position |-> 0, battery |-> 0]
    /\ drone_seen = [r \in LockedReaders |-> NothingSeen]

\* A ballast event starting whenever the draw is below 0.1.
BallastStartsAnyTime(draw, active) == draw

\* Line 365: a ballast event starts when the draw is below 0.1 and none is active.
BallastStarts(draw, active) == draw /\ ~active

\* Line 375: the event goes on while the elapsed time is below its duration.
BallastGoesOn(elapsed, duration) == elapsed < duration

\* Line 361: with drone_data_lock.
DroneAcquire ==
    /\ drone_pc = "sleep"
    /\ drone_data_lock = "free"
    /\ drone_data_lock' = "drone_data_simulator"
    /\ drone_pc' = "locked"
    /\ UNCHANGED <<latest_drone, drone_last_update, ballast_event, ballast_duration,
                   time_since_start>>

\* Lines 362-406: the ballast event and the channels of one tick.  draw:
\* random.random() < 0.1; dur: random.randint(30, 180); dt: the seconds since
\* the current_time of the tick before; u, s, flip: the random and sine terms
\* of the readings.
DroneChannelsBody(draw, dur, dt, u, s, flip) ==
    LET starts == BallastStarts(draw, ballast_event)
        event1 == ballast_event \/ starts
        duration1 == IF starts THEN dur ELSE ballast_duration
        elapsed == IF starts THEN 0 ELSE time_since_start + dt
        goesOn == event1 /\ BallastGoesOn(elapsed, duration1)
        reading == IF goesOn
                   THEN BallastReading(Intensity(elapsed, duration1), u, flip)
                   ELSE NormalReading(u, s)
    IN  /\ ballast_event' = goesOn
        /\ ballast_duration' = duration1
        /\ time_since_start' = IF event1 THEN elapsed ELSE time_since_start
        /\ latest_drone' = ClampDrone(reading)

\* Lines 436-437.
DroneStampBody ==
    /\ drone_last_update' = NextTick(drone_last_update)
    /\ connected' = [connected EXCEPT !["drone"] = TRUE]

\* Lines 362-437: the body of one tick, but for lines 408-434.
DroneBody(draw, dur, dt, u, s, flip) ==
    /\ DroneChannelsBody(draw, dur, dt, u, s, flip)
    /\ DroneStampBody

\* Lines 362-446: the body, the release of the lock and the sleep.
DroneTick(draws) ==
    /\ drone_pc = "locked"
    /\ \E draw \in draws.start, dur \in draws.dur, dt \in draws.dt,
          u \in draws.u, s \in draws.s, flip \in draws.flip :
          DroneBody(draw, dur, dt, u, s, flip)
    /\ drone_data_lock' = "free"
    /\ drone_pc' = "sleep"

\* An exception that would leave the lock held.
DroneRaiseHolding ==
    /\ drone_pc = "locked"
    /\ drone_pc' = "sleep"
    /\ UNCHANGED <<drone_data_lock, latest_drone, drone_last_update, ballast_event,
                   ballast_duration, time_since_start, connected>>

\* Lines 443-446: an exception raised in the body, before its first assignment,
\* leaves the with block, which releases the lock; it is logged and the loop
\* goes on to its sleep.
DroneRaise ==
    /\ drone_pc = "locked"
    /\ drone_data_lock' = "free"
    /\ drone_pc' = "sleep"
    /\ UNCHANGED <<latest_drone, drone_last_update, ballast_event, ballast_duration,
                   time_since_start, connected>>

(***************************************************************************)
(* buoy_data_simulator (app.py 449-509).  No lock is taken.                *)
(***************************************************************************)
\* The assignments of lines 477-482, in their order.
BuoyWriteOrder ==
    <<"temperature", "turbidity", "conductivity", "ph", "do", "pressure">>

\* A tide that would move the conductivity three times as far.
BuoyValueStrongTide(channel, tidal, diurnal, u) ==
    CASE channel = "temperature" -> buoy_base_temperature + diurnal * 2 + u * 500
      [] channel = "turbidity" ->
            Max(0, buoy_base_turbidity + Abs(tidal) * 3 + u * 1000)
      [] channel = "conductivity" -> buoy_base_conductivity + tidal * 3 + u * 200
      [] channel = "ph" -> buoy_base_ph + diurnal \div 10 + u * 50
      [] channel = "do" -> buoy_base_do + diurnal \div 2 + u * 100
      [] channel = "pressure" -> buoy_base_pressure + Abs(tidal) \div 2 + u * 100

\* Lines 477-482.
BuoyValue(channel, tidal, diurnal, u) ==
    CASE channel = "temperature" -> buoy_base_temperature + diurnal * 2 + u * 500
      [] channel = "turbidity" ->
            Max(0, buoy_base_turbidity + Abs(tidal) * 3 + u * 1000)
      [] channel = "conductivity" -> buoy_base_conductivity + tidal + u * 200
      [] channel = "ph" -> buoy_base_ph + diurnal \div 10 + u * 50
      [] channel = "do" -> buoy_base_do + diurnal \div 2 + u * 100
      [] channel = "pressure" -> buoy_base_pressure + Abs(tidal) \div 2 + u * 100

\* Lines 467-474: the clock read and the two factors.
BuoyBegin(draws) ==
    /\ buoy_pc = "sleep"
    /\ \E t \in draws.s, d \in draws.s :
          /\ tidal_factor' = t
          /\ diurnal_factor' = d
    /\ buoy_tick' = NextTick(buoy_tick)
    /\ buoy_next' = 1
    /\ buoy_pc' = "write"
    /\ UNCHANGED <<latest_buoy, buoy_last_update>>

\* One assignment of lines 477-482.
BuoyWrite(draws) ==
    /\ buoy_pc = "write"
    /\ \E u \in draws.u :
          latest_buoy' =
              [latest_buoy EXCEPT ![BuoyWriteOrder[buoy_next]] =
                  [v |-> BuoyValue(BuoyWriteOrder[buoy_next], tidal_factor,
                                   diurnal_factor, u),
                   t |-> buoy_tick]]
    /\ IF buoy_next < Len(BuoyWriteOrder)
       THEN buoy_next' = buoy_next + 1 /\ buoy_pc' = "write"
       ELSE buoy_next' = 1 /\ buoy_pc' = "aux"
    /\ UNCHANGED <<buoy_last_update, buoy_tick, tidal_factor, diurnal_factor>>

\* Lines 485-502: the wave, weather, solar and battery values.
BuoyAux ==
    /\ buoy_pc = "aux"
    /\ buoy_pc' = "stamp"
    /\ UNCHANGED <<latest_buoy, buoy_last_update, buoy_next, buoy_tick, tidal_factor,
                   diurnal_factor>>

\* Line 504 and the sleep of line 509.
BuoyStamp ==
    /\ buoy_pc = "stamp"
    /\ buoy_last_update' = buoy_tick
    /\ buoy_pc' = "sleep"
    /\ tidal_factor' = 0
    /\ diurnal_factor' = 0
    /\ UNCHANGED <<latest_buoy, buoy_next, buoy_tick>>

\* Lines 506-507: an exception raised by the clock read of line 467 is caught.
BuoyRaise ==
    /\ buoy_pc = "sleep"
    /\ buoy_pc' = "except"
    /\ UNCHANGED <<latest_buoy, buoy_last_update, buoy_next, buoy_tick, tidal_factor,
                   diurnal_factor>>

\* Line 507 logs it, and the loop goes on to the sleep of line 509.
BuoyExcept ==
    /\ buoy_pc = "except"
    /\ buoy_pc' = "sleep"
    /\ UNCHANGED <<latest_buoy, buoy_last_update, buoy_next, buoy_tick, tidal_factor,
                   diurnal_factor>>

(***************************************************************************)
(* data_logger (app.py 512-626).                                           *)
(***************************************************************************)
\* A pH compared with its upper threshold only.
DroneViolatesHighPh(channel, v) ==
    CASE channel = "turbidity" -> v > DRONE_TURBIDITY_THRESHOLD
      [] channel = "temperature" -> v > DRONE_TEMPERATURE_THRESHOLD
      [] channel = "conductivity" -> v > DRONE_CONDUCTIVITY_THRESHOLD
      [] channel = "ph" -> v > DRONE_PH_THRESHOLD_HIGH
      [] channel = "do" -> v < DRONE_DO_THRESHOLD

\* Lines 534-543.
DroneViolates(channel, v) ==
    CASE channel = "turbidity" -> v > DRONE_TURBIDITY_THRESHOLD
      [] channel = "temperature" -> v > DRONE_TEMPERATURE_THRESHOLD
      [] channel = "conductivity" -> v > DRONE_CONDUCTIVITY_THRESHOLD
      [] channel = "ph" -> v < DRONE_PH_THRESHOLD_LOW \/ v > DRONE_PH_THRESHOLD_HIGH
      [] channel = "do" -> v < DRONE_DO_THRESHOLD

\* Lines 581-592, but for the pH, which lines 587 compares in two reads.
BuoyViolates(channel, v) ==
    CASE channel = "turbidity" -> v > BUOY_TURBIDITY_THRESHOLD
      [] channel = "temperature" -> v > BUOY_TEMPERATURE_THRESHOLD
      [] channel = "conductivity" -> v > BUOY_CONDUCTIVITY_THRESHOLD
      [] channel = "ph_low" -> v < BUOY_PH_THRESHOLD_LOW
      [] channel = "ph_high" -> v > BUOY_PH_THRESHOLD_HIGH
      [] channel = "do" -> v < BUOY_DO_THRESHOLD
      [] channel = "pressure" -> v > BUOY_PRESSURE_THRESHOLD

\* The order of the comparisons of lines 534-543.
DroneCheckOrder == <<"turbidity", "temperature", "conductivity", "ph", "do">>

\* Lines 533-543: threshold_count after the comparisons i..5.
RECURSIVE DroneCount(_, _, _)
DroneCount(r, i, count) ==
    IF i > Len(DroneCheckOrder) THEN count
    ELSE DroneCount(r, i + 1,
                    IF DroneViolates(DroneCheckOrder[i], r[DroneCheckOrder[i]])
                    THEN count + 1 ELSE count)

\* A count equal to ALERT_THRESHOLD raising no alert.
AboveThresholdStrict(count) == count > ALERT_THRESHOLD

\* One violated threshold raising an alert.
AboveThresholdAny(count) == count >= 1

\* Lines 545, 594.
AboveThreshold(count) == count >= ALERT_THRESHOLD

\* The reads of lines 581-592, in their order; the pH is read once for each
\* side of the or, the second time only if the first comparison is false.
BuoyCheckOrder ==
    <<"turbidity", "temperature", "conductivity", "ph_low", "ph_high", "do",
      "pressure">>
BuoyGlobal(step) == IF step \in {"ph_low", "ph_high"} THEN "ph" ELSE step

\* The reads of lines 597-602, in their order.
BuoyEntryOrder ==
    <<"turbidity", "temperature", "conductivity", "ph", "do", "pressure">>

NoCopy == [c \in DroneChannels |-> None]
NoChecked == [c \in {BuoyCheckOrder[i] : i \in 1 .. Len(BuoyCheckOrder)} |-> None]
NoEntry == [c \in BuoyChannels |-> None]

SensorRecord(unit, reading, above) ==
    [table |-> "SensorData", system_type |-> unit, reading |-> reading,
     above_threshold |-> above, count |-> None]
SystemAlert(unit, count) ==
    [table |-> "SystemAlert", system_type |-> unit, reading |-> <<>>,
     above_threshold |-> TRUE, count |-> count]

\* A unit taken as available as soon as one of its values is there.
DataAvailableAny(values) == \E v \in values : v # None

\* Lines 520-521, 574-576: all(v is not None for v in [...]).
DataAvailable(values) == \A v \in values : v # None

\* A with statement that would enter whoever holds the lock.
LoggerAcquireAnyway ==
    /\ logger_pc = "sleep"
    /\ drone_data_lock' = "data_logger"
    /\ logger_pc' = "locked"
    /\ UNCHANGED <<logger_next, drone_data_available, drone_copy, drone_copy_update,
                   buoy_data_available, buoy_checked, buoy_entry, threshold_count,
                   above_threshold, session, drone_logged>>

\* Line 519, after the sleep of line 514.
LoggerAcquire ==
    /\ logger_pc = "sleep"
    /\ drone_data_lock = "free"
    /\ drone_data_lock' = "data_logger"
    /\ logger_pc' = "locked"
    /\ UNCHANGED <<logger_next, drone_data_available, drone_copy, drone_copy_update,
                   buoy_data_available, buoy_checked, buoy_entry, threshold_count,
                   above_threshold, session, drone_logged>>

\* Lines 520-529, and the release of the lock.
LoggerCopy ==
    /\ logger_pc = "locked"
    /\ drone_data_available' = DataAvailable({latest_drone[c] : c \in DroneChannels})
    /\ drone_copy' = latest_drone
    /\ drone_copy_update' = drone_last_update
    /\ drone_data_lock' = "free"
    /\ logger_pc' = "drone"
    /\ UNCHANGED <<logger_next, buoy_data_available, buoy_checked, buoy_entry,
                   threshold_count, above_threshold, session, drone_logged>>

\* Lines 531-571.
LoggerDroneCheck ==
    /\ logger_pc = "drone"
    /\ IF drone_data_available
       THEN LET count == DroneCount(drone_copy, 1, 0)
                above == AboveThreshold(count)
            IN  /\ threshold_count' = count
                /\ above_threshold' = above
                /\ session' =
                       session \o <<SensorRecord("drone", drone_copy, above)>>
                       \o (IF above THEN <<SystemAlert("drone", count)>> ELSE <<>>)
       ELSE UNCHANGED <<threshold_count, above_threshold, session>>
    /\ logger_pc' = "buoy"
    /\ UNCHANGED <<drone_data_lock, logger_next, drone_data_available, drone_copy,
                   drone_copy_update, buoy_data_available, buoy_checked, buoy_entry,
                   drone_logged>>

\* Lines 574-580.
LoggerBuoyAvailable ==
    /\ logger_pc = "buoy"
    /\ LET available == DataAvailable({latest_buoy[c].v : c \in BuoyChannels})
       IN  /\ buoy_data_available' = available
           /\ IF available
              THEN threshold_count' = 0 /\ logger_pc' = "check"
              ELSE UNCHANGED threshold_count /\ logger_pc' = "commit"
    /\ logger_next' = 1
    /\ UNCHANGED <<drone_data_lock, drone_data_available, drone_copy,
                   drone_copy_update, buoy_checked, buoy_entry, above_threshold,
                   session, drone_logged>>

\* One read and comparison of lines 581-592; after the last one, line 594.
LoggerBuoyCheck ==
    /\ logger_pc = "check"
    /\ LET step == BuoyCheckOrder[logger_next]
           v == latest_buoy[BuoyGlobal(step)].v
           count == IF BuoyViolates(step, v)
                    THEN threshold_count + 1 ELSE threshold_count
           next == IF step = "ph_low" /\ BuoyViolates(step, v)
                   THEN logger_next + 2 ELSE logger_next + 1
       IN  /\ buoy_checked' = [buoy_checked EXCEPT ![step] = v]
           /\ threshold_count' = count
           /\ IF next <= Len(BuoyCheckOrder)
              THEN /\ logger_next' = next
                   /\ logger_pc' = "check"
                   /\ UNCHANGED above_threshold
              ELSE /\ logger_next' = 1
                   /\ logger_pc' = "entry"
                   /\ above_threshold' = AboveThreshold(count)
    /\ UNCHANGED <<drone_data_lock, drone_data_available, drone_copy,
                   drone_copy_update, buoy_data_available, buoy_entry, session,
                   drone_logged>>

\* One read of lines 597-602.
LoggerBuoyEntry ==
    /\ logger_pc = "entry"
    /\ LET c == BuoyEntryOrder[logger_next]
       IN  buoy_entry' = [buoy_entry EXCEPT ![c] = latest_buoy[c].v]
    /\ IF logger_next < Len(BuoyEntryOrder)
       THEN logger_next' = logger_next + 1 /\ logger_pc' = "entry"
       ELSE logger_next' = 1 /\ logger_pc' = "alert"
    /\ UNCHANGED <<drone_data_lock, drone_data_available, drone_copy,
                   drone_copy_update, buoy_data_available, buoy_checked,
                   threshold_count, above_threshold, session, drone_logged>>

\* Lines 609-619.
LoggerBuoyAlert ==
    /\ logger_pc = "alert"
    /\ session' =
           session \o <<SensorRecord("buoy", buoy_entry, above_threshold)>>
           \o (IF above_threshold
               THEN <<SystemAlert("buoy", threshold_count)>> ELSE <<>>)
    /\ logger_pc' = "commit"
    /\ UNCHANGED <<drone_data_lock, logger_next, drone_data_available, drone_copy,
                   drone_copy_update, buoy_data_available, buoy_checked, buoy_entry,
                   threshold_count, above_threshold, drone_logged>>

\* Line 621, and the loop goes back to the sleep of line 514.  The locals are
\* written again before the next iteration reads them.
LoggerCommit ==
    /\ logger_pc = "commit"
    /\ drone_logged' = IF drone_data_available THEN drone_copy_update
                       ELSE drone_logged
    /\ session' = <<>>
    /\ drone_data_available' = FALSE
    /\ drone_copy' = NoCopy
    /\ drone_copy_update' = 0
    /\ buoy_data_available' = FALSE
    /\ buoy_checked' = NoChecked
    /\ buoy_entry' = NoEntry
    /\ threshold_count' = 0
    /\ above_threshold' = FALSE
    /\ logger_next' = 1
    /\ logger_pc' = "sleep"
    /\ UNCHANGED drone_data_lock

(***************************************************************************)
(* The real-time routes (app.py 1065-1089, 1151-1182).  The server answers *)
(* requests once app.run is reached (line 1555).                           *)
(***************************************************************************)
\* Line 1068: with drone_data_lock.
DroneRouteAcquire ==
    /\ main_pc = "serving"
    /\ drone_route_pc = "idle"
    /\ drone_data_lock = "free"
    /\ drone_data_lock' = "get_drone_real_time_data"
    /\ drone_route_pc' = "locked"

\* Lines 1069-1089: the snapshot is read, the lock released, the answer sent.
DroneRouteRead ==
    /\ drone_route_pc = "locked"
    /\ drone_data_lock' = "free"
    /\ drone_route_pc' = "idle"

\* The reads of lines 1154-1159, in their order.
BuoyRouteOrder ==
    <<"turbidity", "temperature", "conductivity", "ph", "do", "pressure">>

\* get_buoy_real_time_data is entered.
BuoyRouteStart ==
    /\ main_pc = "serving"
    /\ buoy_route_pc = "idle"
    /\ buoy_route_pc' = "read"
    /\ buoy_route_next' = 1
    /\ UNCHANGED buoy_response

\* One read of lines 1154-1159.
BuoyRouteRead ==
    /\ buoy_route_pc = "read"
    /\ LET c == BuoyRouteOrder[buoy_route_next]
       IN  buoy_response' = [buoy_response EXCEPT ![c] = latest_buoy[c]]
    /\ IF buoy_route_next < Len(BuoyRouteOrder)
       THEN buoy_route_next' = buoy_route_next + 1 /\ buoy_route_pc' = "read"
       ELSE buoy_route_next' = 1 /\ buoy_route_pc' = "respond"
    
\* Lines 1160-1182: the remaining fields are read and the answer is sent.
BuoyRouteRespond ==
    /\ buoy_route_pc = "respond"
    /\ buoy_route_pc' = "idle"
    /\ buoy_response' = [c \in BuoyChannels |-> [v |-> None, t |-> 0]]
    /\ UNCHANGED buoy_route_next

(***************************************************************************)
(* simulation.py: SensorSimulator, DroneSimulation, BuoySimulation.        *)
(*                                                                         *)
(* A position is an integer number of 1e-7 degrees, the battery an integer *)
(* number of thousandths of a percent.  The clock is `now`, in seconds;    *)
(* update_position is given whether more than 2 seconds have passed since  *)
(* last_position_update (late), which its callers draw.                    *)
(*                                                                         *)
(* Left out: speed, heading, the buoy's waves, weather, solar charge and   *)
(* battery, the fields of the serial line that are no channel of the       *)
(* model's datasets, and the console output.                               *)
(***************************************************************************)
\* SensorSimulator.__init__, line 18: noise_level = 0.1.
noise_level == 100

\* DroneSimulation.__init__, lines 50-54; BuoySimulation.__init__, lines 180-185.
DroneSensors ==
    [temperature |-> [base_value |-> 28000, variation_range |-> 4000],
     turbidity |-> [base_value |-> 15000, variation_range |-> 30000],
     conductivity |-> [base_value |-> 8000, variation_range |-> 4000],
     ph |-> [base_value |-> 7200, variation_range |-> 800],
     do |-> [base_value |-> 6500, variation_range |-> 2500]]
BuoySensors ==
    [temperature |-> [base_value |-> 26000, variation_range |-> 3000],
     turbidity |-> [base_value |-> 8000, variation_range |-> 15000],
     conductivity |-> [base_value |-> 10000, variation_range |-> 5000],
     ph |-> [base_value |-> 7500, variation_range |-> 700],
     do |-> [base_value |-> 5800, variation_range |-> 2000],
     pressure |-> [base_value |-> 1500, variation_range |-> 500]]

\* Lines 41-42: min_val and max_val of a SensorSimulator.
min_val(sensor) == sensor.base_value - sensor.variation_range
max_val(sensor) == sensor.base_value + sensor.variation_range

\* SensorSimulator.get_value, lines 25-43.  s: time_factor, the sine of line
\* 32, in thousandths; u: the noise of line 35 as a fraction of noise_level.
get_value(sensor, s, u) ==
    LET value == sensor.base_value + (s * sensor.variation_range) \div 2000
                 + u * noise_level
    IN  Max(min_val(sensor), Min(value, max_val(sensor)))

\* round(x, 2): the nearest number of hundredths.
Round2(x) == ((x + 5) \div 10) * 10

\* random.uniform(a, b), f thousandths of the way from a to b.
Uniform(a, b, f) == a + ((b - a) * f) \div 1000

\* datetime.now() as a 'timestamp', and what isoformat() makes of it: a str.
Datetime(t) == [str |-> FALSE, t |-> t]
isoformat(timestamp) == [str |-> TRUE, t |-> timestamp.t]

\* The draws of a generate_data call.  s, u: as for get_value, the same for
\* every channel; late: time_diff > 2 in update_position; anomaly: the draw of
\* line 137 or 304 is below its chance; kind: the random.choice of line 144; f:
\* the random.uniform draws of the overrides; tide: sin(tidal_phase), line 227.
AnomalyTypes == {"turbidity_spike", "ph_drop", "temp_rise", "do_drop"}
AnomalyDraws ==
    [s |-> {0 - 1000, 1000}, u |-> {0 - 1, 1}, late |-> {FALSE},
     anomaly |-> BOOLEAN, kind |-> AnomalyTypes, f |-> {0, 1000},
     tide |-> {0 - 1000, 1000}]
\* No anomaly and no storm is drawn, the terms of the values are 0.
CalmDraws ==
    [s |-> {0}, u |-> {0}, late |-> BOOLEAN, anomaly |-> {FALSE},
     kind |-> {"turbidity_spike"}, f |-> {0}, tide |-> {0}]
\* The same, for a call more than 2 seconds after the latest move of the drone
\* (LateDraws), and for a call within those 2 seconds (SoonDraws).
LateDraws == [CalmDraws EXCEPT !.late = {TRUE}]
SoonDraws == [CalmDraws EXCEPT !.late = {FALSE}]

\* DroneSimulation.__init__, lines 65-72, in 1e-7 degrees.
waypoints ==
    <<[lat |-> 42105000, lon |-> 64375000], [lat |-> 42110000, lon |-> 64380000],
      [lat |-> 42115000, lon |-> 64385000], [lat |-> 42120000, lon |-> 64380000],
      [lat |-> 42115000, lon |-> 64375000], [lat |-> 42110000, lon |-> 64370000]>>
\* Line 89: move_distance = 0.0001; line 92: the arrival distance, 0.00005.
move_distance == 1000
arrival_distance == 500
\* Line 101: the battery drain of a move, 0.005.
battery_drain == 5

\* math.sqrt, rounded down: the r in lo .. hi with r * r <= x < (r + 1) * (r + 1).
RECURSIVE SqrtIn(_, _, _)
SqrtIn(x, lo, hi) ==
    IF lo >= hi THEN lo
    ELSE LET mid == (lo + hi + 1) \div 2
         IN  IF mid * mid <= x THEN SqrtIn(x, mid, hi) ELSE SqrtIn(x, lo, mid - 1)
Sqrt(x) == SqrtIn(x, 0, 40000)

\* Lines 82-90: the target of the drone and its distance, squared.
Target == waypoints[current_waypoint + 1]
lat_diff == Target.lat - latitude
lon_diff == Target.lon - longitude
DistanceSquared == lat_diff * lat_diff + lon_diff * lon_diff

\* A drone that has arrived only where its target is.
NotAtWaypointExactly == DistanceSquared > 0

\* Line 92: distance > 0.00005.
NotAtWaypoint == DistanceSquared > arrival_distance * arrival_distance


\* Line 101: max(0, self.battery - 0.005).
Drained(level) == Max(0, level - battery_drain)

\* DroneSimulation.update_position, lines 76-107.
update_position(late) ==
    IF late
    THEN IF NotAtWaypoint
         THEN /\ latitude' = latitude + (lat_diff * move_distance) \div Sqrt(DistanceSquared)
              /\ longitude' = longitude + (lon_diff * move_distance) \div Sqrt(DistanceSquared)
              /\ battery' = Drained(battery)
              /\ UNCHANGED current_waypoint
         ELSE /\ current_waypoint' = (current_waypoint + 1) % Len(waypoints)
              /\ UNCHANGED <<latitude, longitude, battery>>
    ELSE UNCHANGED <<latitude, longitude, battery, current_waypoint>>

\* DroneSimulation._add_anomaly, lines 142-155.
add_anomaly(data, kind, f) ==
    CASE kind = "turbidity_spike" ->
            [data EXCEPT !.turbidity = Round2(Uniform(50000, 80000, f))]
      [] kind = "ph_drop" -> [data EXCEPT !.ph = Round2(Uniform(5500, 6000, f))]
      [] kind = "temp_rise" ->
            [data EXCEPT !.temperature = Round2(Uniform(32000, 35000, f))]
      [] kind = "do_drop" -> [data EXCEPT !.do = Round2(Uniform(2000, 4000, f))]

\* DroneSimulation.generate_data, lines 109-140: the dataset it returns.
DroneData(d) ==
    LET data ==
            [c \in DroneChannels |-> Round2(get_value(DroneSensors[c], d.s, d.u))]
            @@ [timestamp |-> Datetime(now)]
    IN  IF d.anomaly THEN add_anomaly(data, d.kind, d.f) ELSE data

\* BuoySimulation.update_tidal_effects, lines 226-228: the base of pressure_sim.
TidePressure(tide) == 1500 + (tide * 200) \div 1000
PressureSensor(base) == [BuoySensors["pressure"] EXCEPT !.base_value = base]

\* BuoySimulation._add_storm_effects, lines 309-322.
add_storm_effects(data, f) ==
    [data EXCEPT !.pressure = Round2(Uniform(800, 1200, f)),
                 !.turbidity = Round2(Uniform(20000, 40000, f))]

\* BuoySimulation.generate_data, lines 272-307: the dataset it returns.
BuoyData(d) ==
    LET sensors ==
            [BuoySensors EXCEPT !["pressure"] = PressureSensor(TidePressure(d.tide))]
        data ==
            [c \in BuoyChannels |-> Round2(get_value(sensors[c], d.s, d.u))]
            @@ [timestamp |-> Datetime(now)]
    IN  IF d.anomaly THEN add_storm_effects(data, d.f) ELSE data

\* One generate_data call of a unit, its caller keeping the dataset.
generate_data(unit, d) ==
    /\ IF unit = "drone"
       THEN /\ update_position(d.late)
            /\ generated' = [generated EXCEPT ![unit] = DroneData(d)]
            /\ UNCHANGED pressure_base_value
       ELSE /\ pressure_base_value' = TidePressure(d.tide)
            /\ generated' = [generated EXCEPT ![unit] = BuoyData(d)]
            /\ UNCHANGED <<latitude, longitude, battery, current_waypoint>>

\* generate_data called with each draw of a set.
GenerateData(unit, draws) ==
    \E s \in draws.s, u \in draws.u, late \in draws.late, anomaly \in draws.anomaly,
       kind \in draws.kind, f \in draws.f, tide \in draws.tide :
        generate_data(unit, [s |-> s, u |-> u, late |-> late, anomaly |-> anomaly,
                             kind |-> kind, f |-> f, tide |-> tide])

\* No dataset, before the first generate_data call.
NoData == [timestamp |-> Datetime(0 - 1)]

(***************************************************************************)
(* simulation.py: SimulationServer, its two loops, stop and the web API.   *)
(* One step of a loop is one action; a time.sleep ends at any moment from  *)
(* its length on.                                                          *)
(***************************************************************************)
\* Line 365.
max_history == 1000

object_vars == <<latitude, longitude, battery, current_waypoint, pressure_base_value>>

\* Lines 449, 479: the sleep that ends an iteration; lines 453, 483: the sleep
\* of the except clause.
SleepNone(unit, raised) == 0
SleepSeconds(unit, raised) == IF raised \/ unit = "buoy" THEN 5 ELSE 2

\* A loop that goes on whatever the flag is.
GoesOnAnyway(flag) == TRUE

\* Lines 427, 457: while self.running.
GoesOn(flag) == flag

LoopWhile(unit) ==
    /\ loop_pc[unit] = "while"
    /\ loop_pc' =
           [loop_pc EXCEPT ![unit] = IF GoesOn(running) THEN "generate" ELSE "done"]
    /\ UNCHANGED <<object_vars, generated, running, serial_port, loop_wake,
                   data_history, api_response, serial_data>>

\* Lines 430, 460: drone_data = self.drone_sim.generate_data().
LoopGenerate(unit, draws) ==
    /\ loop_pc[unit] = "generate"
    /\ GenerateData(unit, draws)
    /\ loop_pc' = [loop_pc EXCEPT ![unit] = "serial_data"]
    /\ UNCHANGED <<running, serial_port, loop_wake, data_history, api_response,
                   serial_data>>

\* The sets of draws of a generate_data call, as the records of one draw each.
DrawsOf(draws) ==
    [s : draws.s, u : draws.u, late : draws.late, anomaly : draws.anomaly,
     kind : draws.kind, f : draws.f, tide : draws.tide]

\* The format .1f: a value printed with one decimal, here the number printed.
Fixed1(x) == ((x + 50) \div 100) * 100

\* get_serial_data, lines 157-173 and 324-346, from the first f-string on: the
\* fields of the line that are channels of the dataset.
get_serial_data(data) == [c \in DOMAIN data \ {"timestamp"} |-> Fixed1(data[c])]

\* No line, before the first get_serial_data call.
NoLine == <<>>

\* Lines 431, 461: get_serial_data, lines 159 and 326, calls generate_data again
\* and formats the dataset it gets; the dataset of the line before is kept.
LoopSerialData(unit, draws) ==
    /\ loop_pc[unit] = "serial_data"
    /\ \E d \in DrawsOf(draws) :
           IF unit = "drone"
           THEN /\ update_position(d.late)
                /\ serial_data' =
                       [serial_data EXCEPT ![unit] = get_serial_data(DroneData(d))]
                /\ UNCHANGED pressure_base_value
           ELSE /\ pressure_base_value' = TidePressure(d.tide)
                /\ serial_data' =
                       [serial_data EXCEPT ![unit] = get_serial_data(BuoyData(d))]
                /\ UNCHANGED <<latitude, longitude, battery, current_waypoint>>
    /\ loop_pc' = [loop_pc EXCEPT ![unit] = "append"]
    /\ UNCHANGED <<generated, running, serial_port, loop_wake, data_history,
                   api_response>>

\* Lines 434-436, 464-466: the dataset is appended, and the oldest one is
\* dropped from a history that has grown beyond max_history.
\* A full history that keeps its oldest dataset and loses the new one.
AppendedDropNewest(history, data) ==
    IF Len(history) + 1 > max_history THEN history ELSE Append(history, data)

Appended(history, data) ==
    IF Len(history) + 1 > max_history
    THEN Tail(Append(history, data))
    ELSE Append(history, data)
LoopAppend(unit) ==
    /\ loop_pc[unit] = "append"
    /\ data_history' =
           [data_history EXCEPT ![unit] = Appended(data_history[unit], generated[unit])]
    /\ loop_pc' = [loop_pc EXCEPT ![unit] = "is_open"]
    /\ UNCHANGED <<object_vars, generated, running, serial_port, loop_wake,
                   api_response, serial_data>>

\* Lines 439, 469: if self.drone_serial and self.drone_serial.is_open; with no
\* open port the iteration goes on to its sleep.
LoopIsOpen(unit) ==
    /\ loop_pc[unit] = "is_open"
    /\ IF serial_port[unit] = "open"
       THEN loop_pc' = [loop_pc EXCEPT ![unit] = "write"] /\ UNCHANGED loop_wake
       ELSE /\ loop_pc' = [loop_pc EXCEPT ![unit] = "sleep"]
            /\ loop_wake' = [loop_wake EXCEPT ![unit] = now + SleepSeconds(unit, FALSE)]
    /\ UNCHANGED <<object_vars, generated, running, serial_port, data_history,
                   api_response, serial_data>>

\* Lines 440, 470: the write, which raises on a port that stop has closed since
\* line 439; lines 451-453: the exception is printed and the loop sleeps.
LoopWrite(unit) ==
    /\ loop_pc[unit] = "write"
    /\ loop_pc' = [loop_pc EXCEPT ![unit] = "sleep"]
    /\ loop_wake' =
           [loop_wake EXCEPT
               ![unit] = now + SleepSeconds(unit, serial_port[unit] # "open")]
    /\ UNCHANGED <<object_vars, generated, running, serial_port, data_history,
                   api_response, serial_data>>

\* The end of the time.sleep of lines 449, 453, 479, 483.
LoopSleep(unit) ==
    /\ loop_pc[unit] = "sleep"
    /\ now >= loop_wake[unit]
    /\ loop_pc' = [loop_pc EXCEPT ![unit] = "while"]
    /\ UNCHANGED <<object_vars, generated, running, serial_port, loop_wake,
                   data_history, api_response, serial_data>>

\* SimulationServer.stop, line 540.
StopRunning ==
    /\ running
    /\ running' = FALSE
    /\ UNCHANGED <<object_vars, generated, serial_port, loop_pc, loop_wake,
                   data_history, api_response, serial_data>>

\* SimulationServer.stop, lines 543-546: the ports are closed, the drone's first.
StopClose(unit) ==
    /\ ~running
    /\ serial_port[unit] = "open"
    /\ unit = "buoy" => serial_port["drone"] # "open"
    /\ serial_port' = [serial_port EXCEPT ![unit] = "closed"]
    /\ UNCHANGED <<object_vars, generated, running, loop_pc, loop_wake, data_history,
                   api_response, serial_data>>

\* The answers of the web API: none yet, a JSON body, or the error that Flask
\* answers when the view function raises.
NoResponse == [status |-> "none", body |-> <<>>]
Json(body) == [status |-> "json", body |-> body]
NoDataAvailable == [status |-> "No data available", body |-> <<>>]
InternalServerError == [status |-> "error", body |-> <<>>]

\* Lines 496, 504: latest['timestamp'] = latest['timestamp'].isoformat(), on the
\* dataset that the history holds.  A str has no isoformat.
WithIsoformat(data) == [data EXCEPT !.timestamp = isoformat(data.timestamp)]
Latest(history) == history[Len(history)]
SetLatest(history, data) == [history EXCEPT ![Len(history)] = data]

\* get_drone_real_time, lines 491-498; get_buoy_real_time, lines 500-506.
get_real_time(unit) ==
    /\ IF data_history[unit] # <<>>
       THEN IF Latest(data_history[unit]).timestamp.str
            THEN /\ api_response' = [api_response EXCEPT ![unit] = InternalServerError]
                 /\ UNCHANGED data_history
            ELSE LET latest == WithIsoformat(Latest(data_history[unit]))
                 IN  /\ data_history' =
                            [data_history EXCEPT
                                ![unit] = SetLatest(data_history[unit], latest)]
                     /\ api_response' =
                            [api_response EXCEPT ![unit] = Json(<<latest>>)]
       ELSE /\ api_response' = [api_response EXCEPT ![unit] = NoDataAvailable]
            /\ UNCHANGED data_history
    /\ UNCHANGED <<object_vars, generated, running, serial_port, loop_pc, loop_wake,
                   serial_data>>

\* get_drone_historical, lines 508-518; get_buoy_historical, lines 520-530: no
\* dataset of the model is older than the cutoff; data['timestamp'] >= cutoff
\* raises on a str.
get_historical(unit) ==
    /\ IF \E i \in 1 .. Len(data_history[unit]) : data_history[unit][i].timestamp.str
       THEN api_response' = [api_response EXCEPT ![unit] = InternalServerError]
       ELSE api_response' =
                [api_response EXCEPT
                    ![unit] = Json([i \in 1 .. Len(data_history[unit]) |->
                                       WithIsoformat(data_history[unit][i])])]
    /\ UNCHANGED <<object_vars, generated, running, serial_port, loop_pc, loop_wake,
                   data_history, serial_data>>

\* The objects of simulation.py as constructed, lines 57-59, 73, 185, 351-369.
SimObjects ==
    /\ latitude = waypoints[1].lat
    /\ longitude = waypoints[1].lon
    /\ battery = 85000
    /\ current_waypoint = 0
    /\ pressure_base_value = BuoySensors["pressure"].base_value
    /\ generated = [u \in Units |-> NoData]
    /\ loop_wake = [u \in Units |-> 0]
    /\ data_history = [u \in Units |-> <<>>]
    /\ api_response = [u \in Units |-> NoResponse]
    /\ serial_data = [u \in Units |-> NoLine]

\* The clock at the start, and app.py's simulator threads before their first
\* iteration.
TimeInit ==
    /\ PositionInit
    /\ TagInit
    /\ now = 0
    /\ sleep_until = [u \in Units |-> 0]
    /\ buoy_current_time = None
    /\ last_update_time = [u \in Units |-> None]

\* No SimulationServer is started.
SimInit ==
    /\ TimeInit
    /\ SimObjects
    /\ running = FALSE
    /\ serial_port = [u \in Units |-> "None"]
    /\ loop_pc = [u \in Units |-> "not started"]

\* SimulationServer.start has started the loops, lines 371-390, 407-423: a port
\* is open, or None when it could not be opened.
SimStarted ==
    /\ TimeInit
    /\ SimObjects
    /\ running = TRUE
    /\ serial_port \in [Units -> {"None", "open"}]
    /\ loop_pc = [u \in Units |-> "while"]

(***************************************************************************)
(* The initial states.                                                     *)
(***************************************************************************)
NoReading == [v |-> None, t |-> 0]

\* app.py 80-86, 105: the links when the threads are started.
LinkInit ==
    /\ ser = [u \in Units |-> "None"]
    /\ connected = [u \in Units |-> u = "drone"]
    /\ reconnect_attempts = [u \in Units |-> 0]
    /\ main_pc = "connect"
    /\ call = [c \in Callers |-> IdleCall]

\* run.py 79-80, 102.
RunInit == run_connected = [u \in Units |-> u = "drone"]

\* The locals of the threads before their first iteration.
ThreadsInit ==
    /\ drone_data_lock = "free"
    /\ drone_pc = "sleep"
    /\ ballast_event = FALSE
    /\ ballast_duration = 0
    /\ time_since_start = None
    /\ buoy_pc = "sleep"
    /\ buoy_next = 1
    /\ buoy_tick = 0
    /\ tidal_factor = 0
    /\ diurnal_factor = 0
    /\ logger_pc = "sleep"
    /\ logger_next = 1
    /\ drone_data_available = FALSE
    /\ drone_copy = NoCopy
    /\ drone_copy_update = 0
    /\ buoy_data_available = FALSE
    /\ buoy_checked = NoChecked
    /\ buoy_entry = NoEntry
    /\ threshold_count = 0
    /\ above_threshold = FALSE
    /\ session = <<>>
    /\ drone_logged = 0
    /\ drone_route_pc = "idle"
    /\ buoy_route_pc = "idle"
    /\ buoy_route_next = 1
    /\ buoy_response = [c \in BuoyChannels |-> NoReading]

\* app.py 96-113: no reading, the tables of the database being empty (226-264).
SnapshotInit ==
    /\ latest_drone = [c \in DroneChannels |-> None]
    /\ drone_last_update = 0
    /\ latest_buoy = [c \in BuoyChannels |-> NoReading]
    /\ buoy_last_update = 0

AppInit == LinkInit /\ RunInit /\ ThreadsInit /\ SnapshotInit

Init == AppInit /\ SimInit

(***************************************************************************)
(* The links: the startup connect, the reconnect routes, and the drone     *)
(* simulator, which writes drone_connected (app.py); run.py's flags.       *)
(***************************************************************************)
not_link ==
    <<run_vars, drone_data_lock, drone_vars, buoy_vars, logger_vars, route_vars,
      far_vars>>
not_drone == <<run_vars, buoy_vars, logger_vars, route_vars, far_vars>>
not_run ==
    <<link_vars, drone_data_lock, drone_vars, buoy_vars, logger_vars, route_vars,
      far_vars>>

\* The threads that call connect_to_drone or connect_to_buoy here: the main
\* thread and one request thread.
LinkCallers == {"main", "request_1"}

NextLink ==
    \/ MainConnect /\ UNCHANGED not_link
    \/ \E c \in LinkCallers : reconnect_drone(c) /\ UNCHANGED not_link
    \/ \E c \in LinkCallers : reconnect_buoy(c) /\ UNCHANGED not_link
    \/ \E c \in LinkCallers : ConnectClose(c) /\ UNCHANGED not_link
    \/ \E c \in LinkCallers : ConnectPorts(c) /\ UNCHANGED not_link
    \/ \E c \in LinkCallers : ConnectOpen(c) /\ UNCHANGED not_link
    \/ \E c \in LinkCallers : ConnectSetConnected(c) /\ UNCHANGED not_link
    \/ \E c \in LinkCallers : ConnectReset(c) /\ UNCHANGED not_link
    \/ \E c \in LinkCallers : ConnectFlush(c) /\ UNCHANGED not_link
    \/ \E c \in LinkCallers : ConnectExcept(c) /\ UNCHANGED not_link
    \/ \E c \in LinkCallers : ConnectDisconnect(c) /\ UNCHANGED not_link
    \/ \E c \in LinkCallers : ConnectRead(c) /\ UNCHANGED not_link
    \/ \E c \in LinkCallers : ConnectWrite(c) /\ UNCHANGED not_link
    \/ \E c \in LinkCallers : ConnectReturn(c) /\ UNCHANGED not_link
    \/ DroneAcquire /\ UNCHANGED <<link_vars, not_drone>>
    \/ DroneTick(QuietDraws) /\ UNCHANGED <<link_rest, not_drone>>
    \/ DroneRaise /\ UNCHANGED <<link_rest, not_drone>>
    \/ \E u \in Units : RunReconnect(u) /\ UNCHANGED not_run
    \/ \E u \in Units : RunSimulatorTick(u) /\ UNCHANGED not_run

SpecLink == Init /\ [][NextLink]_vars

\* The scheduler runs every thread that can take a step: the main thread, the
\* drone simulator, and a connect call that has begun.  Nothing makes a request
\* arrive.
DroneSimulatorStep ==
    \/ DroneAcquire /\ UNCHANGED <<link_vars, not_drone>>
    \/ DroneTick(QuietDraws) /\ UNCHANGED <<link_rest, not_drone>>
ConnectStep(c) ==
    (\/ ConnectClose(c) \/ ConnectPorts(c) \/ ConnectOpen(c)
     \/ ConnectSetConnected(c) \/ ConnectReset(c) \/ ConnectFlush(c)
     \/ ConnectExcept(c) \/ ConnectDisconnect(c) \/ ConnectRead(c)
     \/ ConnectWrite(c) \/ ConnectReturn(c)) /\ UNCHANGED not_link

FairLink ==
    /\ SpecLink
    /\ WF_vars(MainConnect /\ UNCHANGED not_link)
    /\ \A c \in LinkCallers : WF_vars(ConnectStep(c))
    /\ WF_vars(DroneSimulatorStep)

(***************************************************************************)
(* The links: properties.                                                  *)
(***************************************************************************)
\* C4, as the specification states it: drone_connected goes from False to True
\* only by line 291 of a connect_to_drone call, which has opened the port.
C4_OnlyConnectRaisesConnected ==
    [][(~connected["drone"] /\ connected'["drone"])
         => \E c \in Callers :
               /\ call[c].unit = "drone"
               /\ call[c].pc = "connected"
               /\ call'[c].pc = "reset"
               /\ ser["drone"] = "open"]_vars

\* C5, as the specification states it: while the link of a unit is not open,
\* connection attempts for the unit keep being made, so that again and again
\* the link is open or a connect call for the unit is running.
AttemptRunning(u) == \E c \in Callers : call[c].pc # "idle" /\ call[c].unit = u
C5_LoopKeepsRetrying ==
    /\ []<>(ser["drone"] = "open" \/ AttemptRunning("drone"))
    /\ []<>(ser["buoy"] = "open" \/ AttemptRunning("buoy"))

\* C6, as the specification states it: a call that returns False has not set
\* the counter to 0 (here, for a counter that was above 0 when the call began).
C6_FailedCallKeepsCounter ==
    \A c \in Callers :
        (call[c].pc = "return" /\ ~call[c].result /\ call[c].before > 0)
            => ~call[c].reset_done

\* C7, as the specification states it: when a reconnect route has run, the
\* unit is disconnected and its counter is 0.
C7_RouteLeavesDisconnectedZero ==
    \A c \in Requests :
        call[c].pc = "return"
            => ~connected[call[c].unit] /\ reconnect_attempts[call[c].unit] = 0

\* C7, as the code has it: a reconnect route runs the connect call at once.  The
\* call either opens the port, sets the unit connected and the counter to 0,
\* and returns True, or drops the port, sets the unit disconnected and the
\* counter to one more than it read, never 0, and returns False.  In run.py the
\* route only sets the unit connected.
C7_RouteConnectsAtOnce ==
    [][/\ \A c \in Requests :
            LET u == call'[c].unit IN
            /\ (call[c].pc = "idle" /\ call'[c].pc # "idle")
                   => call'[c].pc = "close"
            /\ (call[c].pc = "connected" /\ call'[c].pc = "reset")
                   => ser[u] = "open" /\ connected'[u]
            /\ (call[c].pc = "reset" /\ call'[c].pc = "flush")
                   => reconnect_attempts'[u] = 0
            /\ (call[c].pc # "return" /\ call'[c].pc = "return" /\ call'[c].result)
                   => call[c].pc = "flush" /\ call[c].reset_done
            /\ (call[c].pc = "except" /\ call'[c].pc = "disconnect")
                   => ser'[u] = "None"
            /\ (call[c].pc = "disconnect" /\ call'[c].pc = "read")
                   => ~connected'[u]
            /\ (call[c].pc # "return" /\ call'[c].pc = "return" /\ ~call'[c].result)
                   => /\ call[c].pc = "write"
                      /\ reconnect_attempts'[u] = call[c].read + 1
                      /\ reconnect_attempts'[u] >= 1
       /\ \A u \in Units : run_connected'[u] # run_connected[u] => run_connected'[u]
      ]_vars

\* A reconnect route has failed on a unit whose counter was above 0: the
\* counter has grown.
C7_Witness ==
    \E c \in Requests :
        /\ call[c].pc = "return"
        /\ ~call[c].result
        /\ call[c].before > 0
        /\ reconnect_attempts[call[c].unit] = call[c].before + 1

\* Whether line 279 (drone) or line 317 (buoy) takes the port.
HintMatches(u, port) ==
    IF u = "drone"
    THEN Contains(port.description, "Arduino") \/ Contains(port.description, "USB")
    ELSE Contains(port.device, "COM5") \/ Contains(port.device, "ttyUSB")
Fallback(u) == IF u = "drone" THEN DRONE_SERIAL_PORT ELSE BUOY_SERIAL_PORT
Hinted(u, ports) == {i \in 1 .. Len(ports) : HintMatches(u, ports[i])}
FirstHinted(u, ports) == ports[CHOOSE i \in Hinted(u, ports) :
                                  \A j \in Hinted(u, ports) : i <= j].device

\* C8, as the specification states it: for both units the port is the first
\* one matching the hint, else the first one enumerated, else the fallback.
C8_ThreeLevelPolicy ==
    \A c \in Callers :
        call[c].pc = "open"
            => LET u == call[c].unit
                   ports == call[c].ports
               IN  call[c].port =
                       IF Hinted(u, ports) # {} THEN FirstHinted(u, ports)
                       ELSE IF ports # <<>> THEN ports[1].device
                       ELSE Fallback(u)

\* C8, as the code has it: connect_to_drone follows the three levels;
\* connect_to_buoy takes the first port matching its hint, else the fallback,
\* whatever ports were enumerated.
C8_PortPolicy ==
    \A c \in Callers :
        call[c].pc = "open"
            => LET u == call[c].unit
                   ports == call[c].ports
               IN  call[c].port =
                       IF Hinted(u, ports) # {} THEN FirstHinted(u, ports)
                       ELSE IF u = "drone" /\ ports # <<>> THEN ports[1].device
                       ELSE Fallback(u)

\* connect_to_buoy is about to open the fallback port though ports were
\* enumerated, none of them matching its hint.
C8_Witness ==
    \E c \in Callers :
        /\ call[c].pc = "open"
        /\ call[c].unit = "buoy"
        /\ call[c].ports # <<>>
        /\ Hinted("buoy", call[c].ports) = {}
        /\ call[c].port = BUOY_SERIAL_PORT

(***************************************************************************)
(* data_logger alone, on the readings initialize_from_database (app.py     *)
(* 226-264) took from the newest rows of the two tables.                   *)
(***************************************************************************)
\* The rows the tables may hold: for every channel a value that violates no
\* threshold and values that violate one; for the turbidity of the drone, the
\* threshold itself.
DroneRows ==
    [temperature : {28000, 33500}, turbidity : {35000, 41000, 45000},
     conductivity : {10000, 13000}, ph : {6200, 7000, 7800}, do : {6000, 4000}]
BuoyRows ==
    [temperature : {26000, 31000}, turbidity : {8000, 11000},
     conductivity : {8000, 10500}, ph : {5900, 7200, 8600}, do : {5500, 3900},
     pressure : {1500, 2100}]

\* Lines 235-253: the newest row of each table, if the table has one.
StoredInit ==
    /\ \/ latest_drone = NoCopy /\ drone_last_update = 0
       \/ latest_drone \in DroneRows /\ drone_last_update = TickIds
    /\ \/ latest_buoy = [c \in BuoyChannels |-> NoReading] /\ buoy_last_update = 0
       \/ /\ latest_buoy \in
                {[c \in BuoyChannels |-> [v |-> r[c], t |-> 0]] : r \in BuoyRows}
          /\ buoy_last_update = TickIds

InitLogger == LinkInit /\ RunInit /\ ThreadsInit /\ StoredInit /\ SimInit

not_logger == <<link_vars, run_vars, drone_vars, buoy_vars, route_vars, far_vars>>

NextLogger ==
    \/ LoggerAcquire /\ UNCHANGED not_logger
    \/ LoggerCopy /\ UNCHANGED not_logger
    \/ LoggerDroneCheck /\ UNCHANGED not_logger
    \/ LoggerBuoyAvailable /\ UNCHANGED not_logger
    \/ LoggerBuoyCheck /\ UNCHANGED not_logger
    \/ LoggerBuoyEntry /\ UNCHANGED not_logger
    \/ LoggerBuoyAlert /\ UNCHANGED not_logger
    \/ LoggerCommit /\ UNCHANGED not_logger

SpecLogger == InitLogger /\ [][NextLogger]_vars

\* The channels of a drone reading that violate their thresholds.
DroneViolated(r) == {c \in DroneChannels : DroneViolates(c, r[c])}

\* The channels of the buoy values read by lines 581-592 that violate their
\* thresholds.
BuoyViolated(checked) ==
    {c \in BuoyChannels :
        IF c = "ph"
        THEN \/ checked["ph_low"] < BUOY_PH_THRESHOLD_LOW
             \/ checked["ph_high"] # None /\ checked["ph_high"] > BUOY_PH_THRESHOLD_HIGH
        ELSE BuoyViolates(c, checked[c])}

\* The alert records of a unit among those the iteration has added.
Alerts(u) ==
    {i \in 1 .. Len(session) :
        session[i].table = "SystemAlert" /\ session[i].system_type = u}

\* C1: once data_logger has evaluated the reading of a unit, the records added
\* hold exactly one alert of the unit, with the count, if the reading violates
\* at least ALERT_THRESHOLD thresholds, and none if it violates fewer or if
\* the unit has no reading.
C1_AlertIffCount ==
    /\ logger_pc \in {"buoy", "check", "entry", "alert", "commit"}
           => LET n == Cardinality(DroneViolated(drone_copy))
              IN  IF drone_data_available /\ n >= ALERT_THRESHOLD
                  THEN /\ Cardinality(Alerts("drone")) = 1
                       /\ \A i \in Alerts("drone") : session[i].count = n
                  ELSE Alerts("drone") = {}
    /\ logger_pc = "commit"
           => LET n == Cardinality(BuoyViolated(buoy_checked))
              IN  IF buoy_data_available /\ n >= ALERT_THRESHOLD
                  THEN /\ Cardinality(Alerts("buoy")) = 1
                       /\ \A i \in Alerts("buoy") : session[i].count = n
                  ELSE Alerts("buoy") = {}

\* Both units have been evaluated: the drone reading violates exactly
\* ALERT_THRESHOLD thresholds and has its alert, the buoy reading violates one
\* fewer and has none.
C1_Witness ==
    /\ logger_pc = "commit"
    /\ drone_data_available
    /\ Cardinality(DroneViolated(drone_copy)) = ALERT_THRESHOLD
    /\ Cardinality(Alerts("drone")) = 1
    /\ buoy_data_available
    /\ Cardinality(BuoyViolated(buoy_checked)) = ALERT_THRESHOLD - 1
    /\ Alerts("buoy") = {}

(***************************************************************************)
(* The threads on the snapshots, from the moment the server serves: the    *)
(* startup connect (line 1553) has returned, and no simulator has run yet. *)
(***************************************************************************)
\* The links after the startup connect: the drone port is open, or the call
\* has failed.
ServingLink ==
    /\ main_pc = "serving"
    /\ call = [c \in Callers |-> IdleCall]
    /\ \/ /\ ser = [u \in Units |-> IF u = "drone" THEN "open" ELSE "None"]
          /\ connected = [u \in Units |-> u = "drone"]
          /\ reconnect_attempts = [u \in Units |-> 0]
       \/ /\ ser = [u \in Units |-> "None"]
          /\ connected = [u \in Units |-> FALSE]
          /\ reconnect_attempts = [u \in Units |-> IF u = "drone" THEN 1 ELSE 0]

InitServing == ServingLink /\ RunInit /\ ThreadsInit /\ SnapshotInit /\ SimInit

not_buoy ==
    <<link_vars, run_vars, drone_data_lock, drone_vars, logger_vars, route_vars,
      far_vars>>
not_drone_route ==
    <<link_vars, run_vars, drone_vars, buoy_vars, logger_vars, buoy_route_pc,
      buoy_route_next, buoy_response, far_vars>>
not_buoy_route ==
    <<link_vars, run_vars, drone_data_lock, drone_vars, buoy_vars, logger_vars,
      drone_route_pc, far_vars>>

\* buoy_data_simulator and get_buoy_real_time_data.
NextBuoy ==
    \/ BuoyBegin(MidDraws) /\ UNCHANGED not_buoy
    \/ BuoyWrite(MidDraws) /\ UNCHANGED not_buoy
    \/ BuoyAux /\ UNCHANGED not_buoy
    \/ BuoyStamp /\ UNCHANGED not_buoy
    \/ BuoyRaise /\ UNCHANGED not_buoy
    \/ BuoyExcept /\ UNCHANGED not_buoy
    \/ BuoyRouteStart /\ UNCHANGED not_buoy_route
    \/ BuoyRouteRead /\ UNCHANGED not_buoy_route
    \/ BuoyRouteRespond /\ UNCHANGED not_buoy_route

SpecBuoy == InitServing /\ [][NextBuoy]_vars

\* C2, as the specification states it: the buoy values a reader has read were
\* all written by one tick of the simulator.
C2_BuoySnapshotOfOneTick ==
    buoy_route_pc = "respond"
        => \A c, d \in BuoyChannels :
              (buoy_response[c].t # 0 /\ buoy_response[d].t # 0)
                  => buoy_response[c].t = buoy_response[d].t

\* drone_data_simulator alone, with the extreme draws.
NextDrone ==
    \/ DroneAcquire /\ UNCHANGED <<link_vars, not_drone>>
    \/ DroneTick(EndDraws) /\ UNCHANGED <<link_rest, not_drone>>
    \/ DroneRaise /\ UNCHANGED <<link_rest, not_drone>>

SpecDrone == Init /\ [][NextDrone]_vars

\* The simulators, data_logger and get_drone_real_time_data.
NextAcq ==
    \/ DroneAcquire /\ UNCHANGED <<link_vars, not_drone>>
    \/ DroneTick(QuietDraws) /\ UNCHANGED <<link_rest, not_drone>>
    \/ DroneRaise /\ UNCHANGED <<link_rest, not_drone>>
    \/ BuoyBegin(MidDraws) /\ UNCHANGED not_buoy
    \/ BuoyWrite(MidDraws) /\ UNCHANGED not_buoy
    \/ BuoyAux /\ UNCHANGED not_buoy
    \/ BuoyStamp /\ UNCHANGED not_buoy
    \/ BuoyRaise /\ UNCHANGED not_buoy
    \/ BuoyExcept /\ UNCHANGED not_buoy
    \/ LoggerAcquire /\ UNCHANGED not_logger
    \/ LoggerCopy /\ UNCHANGED not_logger
    \/ LoggerDroneCheck /\ UNCHANGED not_logger
    \/ LoggerBuoyAvailable /\ UNCHANGED not_logger
    \/ LoggerBuoyCheck /\ UNCHANGED not_logger
    \/ LoggerBuoyEntry /\ UNCHANGED not_logger
    \/ LoggerBuoyAlert /\ UNCHANGED not_logger
    \/ LoggerCommit /\ UNCHANGED not_logger
    \/ DroneRouteAcquire /\ UNCHANGED not_drone_route
    \/ DroneRouteRead /\ UNCHANGED not_drone_route

SpecAcq == InitServing /\ [][NextAcq]_vars

\* C3, as the specification states it: when a tick of the drone simulator
\* replaces a reading, data_logger has copied that reading or has stored it.
C3_EveryReadingLogged ==
    [][(drone_last_update' # drone_last_update /\ drone_last_update # 0)
         => \/ drone_logged = drone_last_update
            \/ drone_copy_update = drone_last_update]_vars

\* The scheduler runs every thread that can take a step, and a thread that
\* waits for drone_data_lock gets it when it is free again and again: the
\* holders keep it for a few assignments, the simulator asks for it every 2
\* seconds.  Nothing makes a request arrive.
DroneHolderStep ==
    \/ DroneTick(QuietDraws) /\ UNCHANGED <<link_rest, not_drone>>
    \/ DroneRaise /\ UNCHANGED <<link_rest, not_drone>>
BuoySimulatorStep ==
    (\/ BuoyBegin(MidDraws) \/ BuoyWrite(MidDraws) \/ BuoyAux \/ BuoyStamp
     \/ BuoyRaise \/ BuoyExcept) /\ UNCHANGED not_buoy
LoggerStep ==
    (\/ LoggerCopy \/ LoggerDroneCheck \/ LoggerBuoyAvailable \/ LoggerBuoyCheck
     \/ LoggerBuoyEntry \/ LoggerBuoyAlert \/ LoggerCommit) /\ UNCHANGED not_logger

FairAcq ==
    /\ SpecAcq
    /\ SF_vars(DroneAcquire /\ UNCHANGED <<link_vars, not_drone>>)
    /\ WF_vars(DroneHolderStep)
    /\ WF_vars(BuoySimulatorStep)
    /\ SF_vars(LoggerAcquire /\ UNCHANGED not_logger)
    /\ WF_vars(LoggerStep)
    /\ WF_vars(DroneRouteRead /\ UNCHANGED not_drone_route)

\* C9: each simulator loop runs iteration after iteration for ever: again and
\* again the drone simulator holds the lock for an iteration and is back at
\* its sleep, and the buoy simulator is in an iteration and back at its sleep,
\* whatever raises in an iteration and whoever takes the lock.
C9_LoopsKeepTicking ==
    /\ []<>(drone_pc = "locked")
    /\ []<>(drone_pc = "sleep")
    /\ []<>(buoy_pc # "sleep")
    /\ []<>(buoy_pc = "sleep")

\* Both simulators have completed a tick and the drone simulator is at its
\* sleep while data_logger holds the lock.
C9_Witness ==
    /\ drone_last_update # 0
    /\ buoy_last_update # 0
    /\ drone_data_lock = "data_logger"
    /\ drone_pc = "sleep"

\* C10: a tick of the drone simulator starts a ballast event only if none is
\* active, leaves the duration of an active event as it is and its start time
\* too (the elapsed time grows), ends the event at the first tick where the
\* elapsed time has reached the duration, and starts none at that tick.
C10_OneBallastEvent ==
    [][drone_last_update' # drone_last_update
         => /\ (time_since_start' = 0 \/ ballast_duration' # ballast_duration)
                   => ~ballast_event /\ ballast_event'
            /\ (~ballast_event /\ ballast_event')
                   => /\ time_since_start' = 0
                      /\ ballast_duration' \in
                             BALLAST_MIN_DURATION .. BALLAST_MAX_DURATION
            /\ ballast_event
                   => /\ ballast_duration' = ballast_duration
                      /\ time_since_start < ballast_duration
                      /\ time_since_start' > time_since_start
                      /\ ballast_event' <=> time_since_start' < ballast_duration
      ]_vars

\* A ballast event has started, has gone on for a tick at least, and has
\* ended at the tick where the elapsed time reached its duration.
C10_Witness ==
    /\ drone_pc = "sleep"
    /\ ~ballast_event
    /\ time_since_start # None
    /\ time_since_start >= ballast_duration
    /\ time_since_start > DRONE_TICK_SECONDS

(***************************************************************************)
(* simulation.py: the datasets of generate_data.                           *)
(***************************************************************************)
not_sim_objects ==
    <<app_vars, now, time_vars, running, serial_port, loop_pc, loop_wake,
      data_history, api_response, serial_data>>

\* generate_data called again and again, within 2 seconds of the call before,
\* as get_serial_data calls it (lines 159, 326).
NextReadings ==
    \/ GenerateData("drone", AnomalyDraws) /\ UNCHANGED not_sim_objects
    \/ GenerateData("buoy", AnomalyDraws) /\ UNCHANGED not_sim_objects

SpecReadings == Init /\ [][NextReadings]_vars

\* The sensors of a unit as they are when a dataset has been returned.
SensorsNow(unit) ==
    IF unit = "drone"
    THEN DroneSensors
    ELSE [BuoySensors EXCEPT !["pressure"] = PressureSensor(pressure_base_value)]
ChannelsOf(unit) == IF unit = "drone" THEN DroneChannels ELSE BuoyChannels

\* C11, as the specification states it: every channel of every dataset that
\* generate_data returns, a dataset with an anomaly or a storm included, lies
\* between base_value - variation_range and base_value + variation_range of
\* its SensorSimulator.
C11_ChannelsWithinBounds ==
    \A unit \in Units :
        generated[unit] # NoData
            => \A c \in ChannelsOf(unit) :
                  /\ generated[unit][c] >= min_val(SensorsNow(unit)[c])
                  /\ generated[unit][c] <= max_val(SensorsNow(unit)[c])

(***************************************************************************)
(* The clock: the simulator threads of app.py with the moments of their    *)
(* clock reads and sleeps, and the loops of SimulationServer.              *)
(***************************************************************************)
\* Line 509.
BUOY_TICK_SECONDS == 3

\* Lines 446, 509: the sleep that ends an iteration of a simulator thread.
TickSeconds(unit) == IF unit = "drone" THEN DRONE_TICK_SECONDS ELSE BUOY_TICK_SECONDS

\* The clock goes on, up to a limit; it never goes backwards.
Advance(limit) ==
    /\ now < limit
    /\ now' = now + 1

\* drone_data_simulator: the sleep of line 446 has ended, line 361.
TimedDroneAcquire ==
    /\ now >= sleep_until["drone"]
    /\ DroneAcquire
    /\ UNCHANGED time_vars

\* Lines 362-446: current_time is read, drone_last_update gets it, the sleep
\* begins.
TimedDroneTick(draws) ==
    /\ DroneTick(draws)
    /\ last_update_time' = [last_update_time EXCEPT !["drone"] = now]
    /\ sleep_until' = [sleep_until EXCEPT !["drone"] = now + TickSeconds("drone")]
    /\ UNCHANGED buoy_current_time

TimedDroneRaise ==
    /\ DroneRaise
    /\ sleep_until' = [sleep_until EXCEPT !["drone"] = now + TickSeconds("drone")]
    /\ UNCHANGED <<buoy_current_time, last_update_time>>

\* buoy_data_simulator: the sleep of line 509 has ended, line 467 reads the clock.
TimedBuoyBegin(draws) ==
    /\ now >= sleep_until["buoy"]
    /\ BuoyBegin(draws)
    /\ buoy_current_time' = now
    /\ UNCHANGED <<sleep_until, last_update_time>>

TimedBuoyRaise ==
    /\ now >= sleep_until["buoy"]
    /\ BuoyRaise
    /\ UNCHANGED time_vars

\* Line 504: buoy_last_update = current_time; line 509.
TimedBuoyStamp ==
    /\ BuoyStamp
    /\ last_update_time' = [last_update_time EXCEPT !["buoy"] = buoy_current_time]
    /\ sleep_until' = [sleep_until EXCEPT !["buoy"] = now + TickSeconds("buoy")]
    /\ UNCHANGED buoy_current_time

TimedBuoyExcept ==
    /\ BuoyExcept
    /\ sleep_until' = [sleep_until EXCEPT !["buoy"] = now + TickSeconds("buoy")]
    /\ UNCHANGED <<buoy_current_time, last_update_time>>

timed_drone ==
    <<link_rest, run_vars, buoy_vars, logger_vars, route_vars, now, sim_vars,
      position_vars, tag_vars>>
timed_buoy ==
    <<link_vars, run_vars, drone_data_lock, drone_vars, logger_vars, route_vars, now,
      sim_vars, position_vars, tag_vars>>
not_server == <<app_vars, now, time_vars>>

\* The two simulator threads of app.py and the drone loop of a SimulationServer
\* that has opened its ports.
NextClock ==
    \/ Advance(MaxClock) /\ UNCHANGED <<app_vars, time_vars, sim_vars>>
    \/ TimedDroneAcquire /\ UNCHANGED <<connected, timed_drone>>
    \/ TimedDroneTick(QuietDraws) /\ UNCHANGED timed_drone
    \/ TimedDroneRaise /\ UNCHANGED timed_drone
    \/ TimedBuoyBegin(QuietDraws) /\ UNCHANGED timed_buoy
    \/ BuoyWrite(QuietDraws) /\ UNCHANGED <<time_vars, timed_buoy>>
    \/ BuoyAux /\ UNCHANGED <<time_vars, timed_buoy>>
    \/ TimedBuoyStamp /\ UNCHANGED timed_buoy
    \/ TimedBuoyRaise /\ UNCHANGED timed_buoy
    \/ TimedBuoyExcept /\ UNCHANGED timed_buoy
    \/ LoopWhile("drone") /\ UNCHANGED not_server
    \/ LoopGenerate("drone", LateDraws) /\ UNCHANGED not_server
    \/ LoopSerialData("drone", SoonDraws) /\ UNCHANGED not_server
    \/ LoopAppend("drone") /\ UNCHANGED not_server
    \/ LoopIsOpen("drone") /\ UNCHANGED not_server
    \/ LoopWrite("drone") /\ UNCHANGED not_server
    \/ LoopSleep("drone") /\ UNCHANGED not_server

InitClock == AppInit /\ SimStarted /\ serial_port = [unit \in Units |-> "open"]

SpecClock == InitClock /\ [][NextClock]_vars

\* The timestamps of a history, oldest first.
Timestamps(history) == [i \in 1 .. Len(history) |-> history[i].timestamp.t]
StrictlyIncreasing(seq) == \A i \in 1 .. Len(seq) - 1 : seq[i] < seq[i + 1]

\* C12: within one unit the timestamps of successively published readings are
\* strictly increasing: each step that publishes a reading of app.py gives
\* drone_last_update or buoy_last_update a later clock value than it held, and
\* the timestamps of drone_data_history are strictly increasing from the oldest
\* entry to the newest.
C12_TimestampsIncrease ==
    [][/\ drone_last_update' # drone_last_update
            => last_update_time'["drone"] > last_update_time["drone"]
       /\ buoy_last_update' # buoy_last_update
            => last_update_time'["buoy"] > last_update_time["buoy"]
       /\ StrictlyIncreasing(Timestamps(data_history'["drone"]))]_vars

\* Each simulator thread of app.py has published its second reading, and the
\* drone history holds two datasets.
C12_Witness ==
    /\ drone_last_update = 2
    /\ buoy_last_update = 2
    /\ Len(data_history["drone"]) >= 2

(***************************************************************************)
(* drone_data_lock: what its holders do while they hold it.                *)
(***************************************************************************)
\* The statements between the acquisition and the release of drone_data_lock:
\* the with block of drone_data_simulator, lines 361-441 (the step DroneTick),
\* of data_logger, lines 519-529 (LoggerCopy), and of
\* get_drone_real_time_data, lines 1068-1088 (DroneRouteRead).
HeldFor(holder) ==
    CASE holder = "drone_data_simulator" ->
            {"clock read", "random draws", "value computation", "logger.info",
             "snapshot write"}
      [] holder = "data_logger" -> {"snapshot read"}
      [] holder = "get_drone_real_time_data" -> {"snapshot read"}
Copying == {"snapshot read", "snapshot write"}

\* C13, as the specification states it: whoever holds drone_data_lock holds it
\* only to copy values into or out of the snapshot, never across the value
\* computation of a tick or across a logging call.
C13_LockOnlyForCopying ==
    drone_data_lock # "free" => HeldFor(drone_data_lock) \subseteq Copying

(***************************************************************************)
(* A tick of the drone simulator that stalls.                              *)
(***************************************************************************)
\* The scheduler runs every thread that can take a step, the drone simulator
\* excepted once it is in the with block of line 361: its tick may stall there
\* for ever.
FairStall ==
    /\ SpecAcq
    /\ SF_vars(DroneAcquire /\ UNCHANGED <<link_vars, not_drone>>)
    /\ WF_vars(BuoySimulatorStep)
    /\ SF_vars(LoggerAcquire /\ UNCHANGED not_logger)
    /\ WF_vars(LoggerStep)
    /\ WF_vars(DroneRouteRead /\ UNCHANGED not_drone_route)

\* C14, as the specification states it: while a tick of the drone simulator
\* stalls, with drone_data_lock held or not, the buoy simulator goes on running
\* its iterations and data_logger goes on reaching its evaluation of the buoy
\* readings (line 574).
C14_StalledTickDelaysNoOne ==
    /\ []<>(buoy_pc # "sleep")
    /\ []<>(buoy_pc = "sleep")
    /\ []<>(logger_pc = "buoy")

(***************************************************************************)
(* SimulationServer: the two loops and stop.                               *)
(***************************************************************************)
\* The latest moment a sleeping loop waits for: the clock is followed no
\* further.
WakeLimit == Max(loop_wake["drone"], loop_wake["buoy"])

\* The iterations a loop is followed for.
TicksLeft(unit) == running => Len(data_history[unit]) < MaxTicks

LoopStep(unit) ==
    (\/ (TicksLeft(unit) /\ LoopWhile(unit)) \/ LoopGenerate(unit, LateDraws)
     \/ LoopSerialData(unit, SoonDraws) \/ LoopAppend(unit) \/ LoopIsOpen(unit)
     \/ LoopWrite(unit) \/ LoopSleep(unit)) /\ UNCHANGED not_server

NextStop ==
    \/ Advance(WakeLimit) /\ UNCHANGED <<app_vars, time_vars, sim_vars>>
    \/ \E unit \in Units : TicksLeft(unit) /\ LoopWhile(unit) /\ UNCHANGED not_server
    \/ \E unit \in Units : LoopGenerate(unit, LateDraws) /\ UNCHANGED not_server
    \/ \E unit \in Units : LoopSerialData(unit, SoonDraws) /\ UNCHANGED not_server
    \/ \E unit \in Units : LoopAppend(unit) /\ UNCHANGED not_server
    \/ \E unit \in Units : LoopIsOpen(unit) /\ UNCHANGED not_server
    \/ \E unit \in Units : LoopWrite(unit) /\ UNCHANGED not_server
    \/ \E unit \in Units : LoopSleep(unit) /\ UNCHANGED not_server
    \/ StopRunning /\ UNCHANGED not_server
    \/ \E unit \in Units : StopClose(unit) /\ UNCHANGED not_server

InitStarted == AppInit /\ SimStarted

SpecStop == InitStarted /\ [][NextStop]_vars

\* The scheduler runs each loop that can take a step, and time passes.  Nothing
\* makes stop be called.
FairStop ==
    /\ SpecStop
    /\ \A unit \in Units : WF_vars(LoopStep(unit))
    /\ WF_vars(Advance(WakeLimit) /\ UNCHANGED <<app_vars, time_vars, sim_vars>>)

\* A whole dataset of a unit: its timestamp and a value of every channel.
WholeDataset(unit, data) ==
    /\ DOMAIN data = ChannelsOf(unit) \cup {"timestamp"}
    /\ data # NoData

NextApi ==
    \/ Advance(WakeLimit) /\ UNCHANGED <<app_vars, time_vars, sim_vars>>
    \/ \E unit \in Units : TicksLeft(unit) /\ LoopWhile(unit) /\ UNCHANGED not_server
    \/ \E unit \in Units : LoopGenerate(unit, LateDraws) /\ UNCHANGED not_server
    \/ \E unit \in Units : LoopSerialData(unit, SoonDraws) /\ UNCHANGED not_server
    \/ \E unit \in Units : LoopAppend(unit) /\ UNCHANGED not_server
    \/ \E unit \in Units : LoopIsOpen(unit) /\ UNCHANGED not_server
    \/ \E unit \in Units : LoopWrite(unit) /\ UNCHANGED not_server
    \/ \E unit \in Units : LoopSleep(unit) /\ UNCHANGED not_server
    \/ \E unit \in Units : get_real_time(unit) /\ UNCHANGED not_server
    \/ \E unit \in Units : get_historical(unit) /\ UNCHANGED not_server

SpecApi == InitStarted /\ [][NextApi]_vars

\* C16, as the specification states it: a query of the web API never fails: it
\* answers the datasets it was asked for or, with an empty history, 'No data
\* available', however many queries came before it.
C16_QueryNeverFails ==
    \A unit \in Units : api_response[unit] # InternalServerError

(***************************************************************************)
(* DroneSimulation.update_position, called again and again.                *)
(***************************************************************************)
not_position ==
    <<app_vars, now, time_vars, pressure_base_value, generated, running, serial_port,
      loop_pc, loop_wake, data_history, api_response, serial_data>>

NextMotion == \E late \in BOOLEAN : update_position(late) /\ UNCHANGED not_position

SpecMotion == Init /\ [][NextMotion]_vars

\* The callers sleep 2 seconds between two iterations (lines 449, 479;
\* run_simulation.py 35): again and again a call comes more than 2 seconds
\* after the latest move.
FairMotion == SpecMotion /\ WF_vars(update_position(TRUE) /\ UNCHANGED not_position)

\* The drone is within the arrival distance of waypoint i, its target.
Reached(i) ==
    /\ current_waypoint = i
    /\ DistanceSquared <= arrival_distance * arrival_distance

Sign(x) == IF x > 0 THEN 1 ELSE IF x < 0 THEN 0 - 1 ELSE 0

\* The length of a step, squared, is that of move_distance, up to the rounding
\* of the two coordinates to 1e-7 degrees.
FixedStep(dlat, dlon) ==
    /\ dlat * dlat + dlon * dlon <= (move_distance + 2) * (move_distance + 2)
    /\ dlat * dlat + dlon * dlon >= (move_distance - 2) * (move_distance - 2)

\* C17: current_waypoint is always an index of the waypoint list; a call of
\* update_position that changes anything either finds the drone within
\* 0.00005 of its target and moves the index on by one, modulo the number of
\* waypoints, leaving the position, or finds it farther away and moves the
\* position by the fixed step 0.0001 towards the target, leaving the index;
\* every waypoint is reached again and again.
C17_FollowsWaypoints ==
    /\ [](current_waypoint \in 0 .. Len(waypoints) - 1)
    /\ [][IF Reached(current_waypoint)
          THEN /\ current_waypoint' = (current_waypoint + 1) % Len(waypoints)
               /\ latitude' = latitude /\ longitude' = longitude
          ELSE /\ current_waypoint' = current_waypoint
               /\ FixedStep(latitude' - latitude, longitude' - longitude)
               /\ Sign(latitude' - latitude) = Sign(lat_diff)
               /\ Sign(longitude' - longitude) = Sign(lon_diff)
         ]_<<latitude, longitude, current_waypoint, battery>>
    /\ \A i \in 0 .. Len(waypoints) - 1 : []<>Reached(i)

\* The drone has gone round the list once and is at a distance from its first
\* waypoint that is neither 0 nor a whole number of steps.
C17_Witness ==
    /\ Reached(0)
    /\ battery < 85000
    /\ DistanceSquared > 0

\* C18, as the specification states it: the battery of the waypoint-following
\* drone floors at a minimum above zero: it never is exactly zero, however
\* many update_position calls have moved the drone.
C18_BatteryNeverZero == battery > 0

(***************************************************************************)
(* Scenario A: data_logger on one stored drone reading.                    *)
(***************************************************************************)
\* The reading of the scenario, in thousandths.
ScenarioA ==
    [temperature |-> 33500, turbidity |-> 45000, conductivity |-> 13000,
     ph |-> 6200, do |-> 4000]

\* C19: once data_logger has evaluated the reading temperature 33.5,
\* turbidity 45.0, conductivity 13.0, pH 6.2, DO 4.0 of the drone under the
\* default thresholds and ALERT_THRESHOLD = 3, its threshold_count is 5, the
\* SensorData record it added carries above_threshold, and it added one
\* SystemAlert of the drone, which carries the count 5.
C19_ScenarioA ==
    (/\ logger_pc = "buoy"
     /\ drone_data_available
     /\ drone_copy = ScenarioA)
        => /\ ALERT_THRESHOLD = 3
           /\ threshold_count = 5
           /\ above_threshold
           /\ session = <<SensorRecord("drone", ScenarioA, TRUE),
                          SystemAlert("drone", 5)>>

\* data_logger has evaluated the reading of the scenario and added its alert.
C19_Witness ==
    /\ logger_pc = "buoy"
    /\ drone_data_available
    /\ drone_copy = ScenarioA
    /\ threshold_count = 5
    /\ Len(session) = 2
    /\ session[2] = SystemAlert("drone", 5)

(***************************************************************************)
(* Scenario C: drone_data_simulator through a ballast event of 60 seconds. *)
(***************************************************************************)
\* The draws of the scenario: random.randint(30, 180) gives 60 or 180, the
\* clock reads of two successive ticks are 30 or 31 seconds apart, so that a
\* tick falls 30 seconds and a later one 61 seconds after the start; every
\* random.uniform draw is an end or the midpoint of its interval, every sine
\* -1, 0 or 1.
ScenarioDraws ==
    [u |-> {0 - 1, 0, 1}, s |-> {0 - 1000, 0, 1000}, flip |-> BOOLEAN,
     start |-> BOOLEAN, dur |-> {60, BALLAST_MAX_DURATION}, dt |-> {30, 31}]

NextScenario ==
    \/ DroneAcquire /\ UNCHANGED <<link_vars, not_drone>>
    \/ DroneTick(ScenarioDraws) /\ UNCHANGED <<link_rest, not_drone>>
    \/ DroneRaise /\ UNCHANGED <<link_rest, not_drone>>

SpecScenario == Init /\ [][NextScenario]_vars

\* The readings lines 395-406 can publish under the draws of the scenario.
NormalReadings ==
    {ClampDrone(NormalReading(u, s)) : u \in ScenarioDraws.u, s \in ScenarioDraws.s}

\* C20: in a ballast event of 60 seconds, the tick that reads the clock 30
\* seconds after the start leaves the event active and publishes a turbidity
\* within 2 of the base turbidity plus 20; the tick that reads it 61 seconds
\* after the start ends the event and publishes a reading of the normal
\* variations.
C20_ScenarioC ==
    ballast_duration = 60
        => /\ time_since_start = 30
                  => /\ ballast_event
                     /\ Intensity(time_since_start, ballast_duration) = 1000
                     /\ Abs(latest_drone.turbidity - (drone_base_turbidity + 20000))
                            <= 2000
           /\ time_since_start = 61
                  => /\ ~ballast_event
                     /\ latest_drone \in NormalReadings

\* The event of 60 seconds has ended at the tick 61 seconds after its start,
\* which published the base turbidity with the largest normal variation.
C20_Witness ==
    /\ ballast_duration = 60
    /\ time_since_start = 61
    /\ ~ballast_event
    /\ latest_drone.turbidity = drone_base_turbidity + 5000 + 2000

(***************************************************************************)
(* data_logger and the values that are not there yet.                      *)
(***************************************************************************)
\* The comparison data_logger makes next has None on its left: in Python 3
\* it raises TypeError.  For the drone the five comparisons of lines 534-543
\* are on the copies, for the buoy each of lines 581-592 reads its global.
ComparesNone ==
    \/ /\ logger_pc = "drone"
       /\ drone_data_available
       /\ \E c \in DroneChannels : drone_copy[c] = None
    \/ /\ logger_pc = "check"
       /\ latest_buoy[BuoyGlobal(BuoyCheckOrder[logger_next])].v = None

\* The records of a unit among those the iteration has added.
Records(u) == {i \in 1 .. Len(session) : session[i].system_type = u}

\* C21: data_logger never compares a missing value with a threshold, so no
\* comparison raises; and an iteration that found a channel of a unit missing
\* adds no record and no alert of that unit.
C21_MissingValueNeverCounts ==
    /\ ~ComparesNone
    /\ (/\ logger_pc \in {"buoy", "check", "entry", "alert", "commit"}
        /\ \E c \in DroneChannels : drone_copy[c] = None)
           => ~drone_data_available /\ Records("drone") = {}
    /\ (logger_pc = "commit" /\ ~buoy_data_available)
           => Records("buoy") = {} /\ buoy_checked = NoChecked

\* data_logger has found the buoy with some of its values written by the
\* first tick and others still missing, and has skipped it.
C21_Witness ==
    /\ logger_pc = "commit"
    /\ ~buoy_data_available
    /\ latest_buoy["temperature"].v # None
    /\ latest_buoy["pressure"].v = None
    /\ Records("buoy") = {}
    /\ drone_data_available

(***************************************************************************)
(* drone_data_simulator alone, with lines 408-434: position and battery.   *)
(***************************************************************************)
\* The channel draws are the midpoints; an event lasts 30 seconds and the
\* ticks are 15 seconds apart.  The latitude draws its least offset at every
\* tick and the longitude its greatest, so that both reach the box.
GpsDraws ==
    [u |-> {0}, s |-> {0}, flip |-> {TRUE}, start |-> BOOLEAN,
     dur |-> {BALLAST_MIN_DURATION}, dt |-> {ElapsedStep},
     lat |-> {0 - 1000}, lon |-> {999}, recharge |-> BOOLEAN]

\* Lines 362-446: the whole tick.
DroneTickMove(draws) ==
    /\ DroneTick(draws)
    /\ \E lat \in draws.lat, lon \in draws.lon, recharge \in draws.recharge :
          DroneMove(lat, lon, recharge)

not_position_drone ==
    <<link_rest, run_vars, buoy_vars, logger_vars, route_vars, far_rest, tag_vars>>

NextGps ==
    \/ DroneAcquire /\ UNCHANGED <<link_vars, not_drone>>
    \/ DroneTickMove(GpsDraws) /\ UNCHANGED not_position_drone
    \/ DroneRaise /\ UNCHANGED <<link_rest, not_drone>>

SpecGps == Init /\ [][NextGps]_vars

\* C22: once a tick of drone_data_simulator has published, with or without
\* a ballast event, the temperature is in [20, 36], the turbidity in [0, 60],
\* the conductivity in [5, 18], the pH in [6.0, 8.2], the DO in [3.0, 10.0],
\* latitude and longitude are within 0.001 of the centre, and the battery is
\* in [10, 100].
C22_PublishedValuesInRange ==
    drone_last_update # 0
        => /\ latest_drone.temperature \in 20000 .. 36000
           /\ latest_drone.turbidity \in 0 .. 60000
           /\ latest_drone.conductivity \in 5000 .. 18000
           /\ latest_drone.ph \in 6000 .. 8200
           /\ latest_drone.do \in 3000 .. 10000
           /\ Abs(latest_drone_latitude - center_lat) <= 10000
           /\ Abs(latest_drone_longitude - center_lon) <= 10000
           /\ latest_drone_battery \in 10000 .. 100000

\* A tick in a ballast event has published with the battery at its floor and
\* the position in a corner of the box.
C22_Witness ==
    /\ drone_last_update # 0
    /\ ballast_event
    /\ latest_drone_battery = 10000
    /\ latest_drone_latitude = center_lat - 10000
    /\ latest_drone_longitude = center_lon + 10000

(***************************************************************************)
(* The drone snapshot under drone_data_lock: the tick of the simulator,    *)
(* assignment group by assignment group, data_logger and                   *)
(* get_drone_real_time_data.                                               *)
(***************************************************************************)
\* The number of the tick that holds the lock.
RunningTick == NextTick(drone_last_update)

\* Lines 362-406: the channels are assigned.
DroneWriteChannels(draws) ==
    /\ drone_pc = "locked"
    /\ \E draw \in draws.start, dur \in draws.dur, dt \in draws.dt,
          u \in draws.u, s \in draws.s, flip \in draws.flip :
          DroneChannelsBody(draw, dur, dt, u, s, flip)
    /\ drone_written' = [drone_written EXCEPT !.channels = RunningTick]
    /\ drone_pc' = "position"
    /\ UNCHANGED <<drone_data_lock, drone_last_update, connected, drone_seen>>

\* Lines 408-425: latitude and longitude are assigned.
DroneWritePosition ==
    /\ drone_pc = "position"
    /\ drone_written' = [drone_written EXCEPT !.position = RunningTick]
    /\ drone_pc' = "battery"
    /\ UNCHANGED <<drone_data_lock, latest_drone, drone_last_update, ballast_event,
                   ballast_duration, time_since_start, connected, drone_seen>>

\* Lines 428-433: the battery is assigned.
DroneWriteBattery ==
    /\ drone_pc = "battery"
    /\ drone_written' = [drone_written EXCEPT !.battery = RunningTick]
    /\ drone_pc' = "stamp"
    /\ UNCHANGED <<drone_data_lock, latest_drone, drone_last_update, ballast_event,
                   ballast_duration, time_since_start, connected, drone_seen>>

\* Lines 436-446: the timestamp, the release of the lock and the sleep.
DroneStamp ==
    /\ drone_pc = "stamp"
    /\ DroneStampBody
    /\ drone_data_lock' = "free"
    /\ drone_pc' = "sleep"
    /\ UNCHANGED <<latest_drone, ballast_event, ballast_duration, time_since_start,
                   tag_vars>>

\* Lines 520-529: data_logger reads the channels, the position and the
\* battery; it does not read drone_last_update.
LoggerCopySeen ==
    /\ LoggerCopy
    /\ drone_seen' =
           [drone_seen EXCEPT !["data_logger"] =
               [channels |-> drone_written.channels,
                position |-> drone_written.position,
                battery |-> drone_written.battery,
                stamp |-> 0]]
    /\ UNCHANGED drone_written

\* Lines 1069-1088: the route reads all of them and drone_last_update.
DroneRouteReadSeen ==
    /\ DroneRouteRead
    /\ drone_seen' =
           [drone_seen EXCEPT !["get_drone_real_time_data"] =
               [channels |-> drone_written.channels,
                position |-> drone_written.position,
                battery |-> drone_written.battery,
                stamp |-> drone_last_update]]
    /\ UNCHANGED drone_written

not_tagged_drone ==
    <<link_rest, run_vars, buoy_vars, logger_vars, route_vars, far_rest,
      position_vars>>
not_tagged_logger ==
    <<link_vars, run_vars, drone_vars, buoy_vars, route_vars, far_rest,
      position_vars>>
not_tagged_route ==
    <<link_vars, run_vars, drone_vars, buoy_vars, logger_vars, buoy_route_pc,
      buoy_route_next, buoy_response, far_rest, position_vars>>

NextAtomic ==
    \/ DroneAcquire /\ UNCHANGED <<link_vars, not_drone>>
    \/ DroneWriteChannels(QuietDraws) /\ UNCHANGED not_tagged_drone
    \/ DroneWritePosition /\ UNCHANGED not_tagged_drone
    \/ DroneWriteBattery /\ UNCHANGED not_tagged_drone
    \/ DroneStamp /\ UNCHANGED not_tagged_drone
    \/ LoggerAcquire /\ UNCHANGED not_logger
    \/ LoggerCopySeen /\ UNCHANGED not_tagged_logger
    \/ LoggerDroneCheck /\ UNCHANGED not_logger
    \/ LoggerBuoyAvailable /\ UNCHANGED not_logger
    \/ LoggerCommit /\ UNCHANGED not_logger
    \/ DroneRouteAcquire /\ UNCHANGED not_drone_route
    \/ DroneRouteReadSeen /\ UNCHANGED not_tagged_route

SpecAtomic == InitServing /\ [][NextAtomic]_vars

\* C23: what a reader that took drone_data_lock has read, the channels,
\* the position, the battery, and for get_drone_real_time_data also
\* drone_last_update, was all written by one tick of drone_data_simulator
\* (or by none, before the first tick).
C23_SnapshotOfOneTick ==
    /\ \A r \in LockedReaders :
           /\ drone_seen[r].channels = drone_seen[r].position
           /\ drone_seen[r].channels = drone_seen[r].battery
    /\ drone_seen["get_drone_real_time_data"].channels
           = drone_seen["get_drone_real_time_data"].stamp

\* Both readers have read the snapshot of a tick while the simulator, with
\* its next tick, waits for the lock or has it.
C23_Witness ==
    /\ drone_seen["data_logger"].channels # 0
    /\ drone_seen["get_drone_real_time_data"].stamp # 0
    /\ drone_seen["data_logger"].channels
           # drone_seen["get_drone_real_time_data"].channels
    /\ drone_data_lock = "drone_data_simulator"
    /\ drone_pc = "battery"

\* C24, as the specification states it: a call of connect_to_drone or
\* connect_to_buoy that returns False leaves the counter of its unit one above
\* the value it had when the call began and the serial handle None, and the
\* unit disconnected (here, as long as no tick of the drone simulator has set
\* drone_connected).  No two calls overlap in SpecLink.
C24_FailedCallCountsOnce ==
    \A c \in Callers :
        (call[c].pc = "return" /\ ~call[c].result)
            => /\ reconnect_attempts[call[c].unit] = call[c].before + 1
               /\ ser[call[c].unit] = "None"
               /\ drone_last_update = 0 => ~connected[call[c].unit]

(***************************************************************************)
(* Two requests to /api/debug/reconnect-drone served at the same time (the *)
(* server of app.run handles each request in a thread of its own).         *)
(***************************************************************************)
NextRace ==
    \/ \E c \in Requests : reconnect_drone(c) /\ UNCHANGED not_link
    \/ \E c \in Requests : ConnectClose(c) /\ UNCHANGED not_link
    \/ \E c \in Requests : ConnectPorts(c) /\ UNCHANGED not_link
    \/ \E c \in Requests : ConnectOpen(c) /\ UNCHANGED not_link
    \/ \E c \in Requests : ConnectSetConnected(c) /\ UNCHANGED not_link
    \/ \E c \in Requests : ConnectReset(c) /\ UNCHANGED not_link
    \/ \E c \in Requests : ConnectFlush(c) /\ UNCHANGED not_link
    \/ \E c \in Requests : ConnectExcept(c) /\ UNCHANGED not_link
    \/ \E c \in Requests : ConnectDisconnect(c) /\ UNCHANGED not_link
    \/ \E c \in Requests : ConnectRead(c) /\ UNCHANGED not_link
    \/ \E c \in Requests : ConnectWrite(c) /\ UNCHANGED not_link
    \/ \E c \in Requests : ConnectReturn(c) /\ UNCHANGED not_link

SpecRace == InitServing /\ [][NextRace]_vars

\* C25, as the specification states it: when the calls of connect_to_drone
\* of two requests have run at the same time, from the same value of the
\* counter, and both have failed without opening the port, the counter is
\* that value plus two.
C25_NoIncrementLost ==
    (/\ \A c \in Requests :
           /\ call[c].pc = "return"
           /\ call[c].unit = "drone"
           /\ ~call[c].result
           /\ ~call[c].reset_done
     /\ call["request_1"].before = call["request_2"].before)
        => reconnect_attempts["drone"] = call["request_1"].before + 2

(***************************************************************************)
(* data_logger and buoy_data_simulator, started on a database whose newest *)
(* BuoySensorData row violates thresholds (initialize_from_database).      *)
(***************************************************************************)
\* The newest row of BuoySensorData: turbidity, pH and pressure violate
\* nothing, each of the three other channels may.
StoredBuoyRows ==
    {r \in BuoyRows : r.turbidity = 8000 /\ r.ph = 7200 /\ r.pressure = 1500}

\* Lines 235-253, with no row in DroneSensorData.
StoredBuoyInit ==
    /\ latest_drone = NoCopy
    /\ drone_last_update = 0
    /\ latest_buoy \in
           {[c \in BuoyChannels |-> [v |-> r[c], t |-> 0]] : r \in StoredBuoyRows}
    /\ buoy_last_update = TickIds

InitStoredBuoy == LinkInit /\ RunInit /\ ThreadsInit /\ StoredBuoyInit /\ SimInit

NextStoredBuoy ==
    \/ BuoyBegin(MidDraws) /\ UNCHANGED not_buoy
    \/ BuoyWrite(MidDraws) /\ UNCHANGED not_buoy
    \/ BuoyAux /\ UNCHANGED not_buoy
    \/ BuoyStamp /\ UNCHANGED not_buoy
    \/ LoggerAcquire /\ UNCHANGED not_logger
    \/ LoggerCopy /\ UNCHANGED not_logger
    \/ LoggerDroneCheck /\ UNCHANGED not_logger
    \/ LoggerBuoyAvailable /\ UNCHANGED not_logger
    \/ LoggerBuoyCheck /\ UNCHANGED not_logger
    \/ LoggerBuoyEntry /\ UNCHANGED not_logger
    \/ LoggerBuoyAlert /\ UNCHANGED not_logger
    \/ LoggerCommit /\ UNCHANGED not_logger

SpecStoredBuoy == InitStoredBuoy /\ [][NextStoredBuoy]_vars

\* The channels of a stored buoy record that violate their thresholds.
BuoyEntryViolated(reading) ==
    {c \in BuoyChannels :
        IF c = "ph"
        THEN reading.ph < BUOY_PH_THRESHOLD_LOW \/ reading.ph > BUOY_PH_THRESHOLD_HIGH
        ELSE BuoyViolates(c, reading[c])}

NextAlert ==
    \/ DroneAcquire /\ UNCHANGED <<link_vars, not_drone>>
    \/ DroneTick(EndDraws) /\ UNCHANGED <<link_rest, not_drone>>
    \/ LoggerAcquire /\ UNCHANGED not_logger
    \/ LoggerCopy /\ UNCHANGED not_logger
    \/ LoggerDroneCheck /\ UNCHANGED not_logger
    \/ LoggerBuoyAvailable /\ UNCHANGED not_logger
    \/ LoggerCommit /\ UNCHANGED not_logger

SpecAlert == Init /\ [][NextAlert]_vars

\* What lines 381-385 and 402-406 can publish during an event, and what lines
\* 395-406 can publish outside of one, under the extreme draws.
BallastPublished ==
    UNION {{ClampDrone(BallastReading(Intensity(elapsed, duration), u, flip)) :
                elapsed \in 0 .. duration - 1, u \in EndDraws.u,
                flip \in EndDraws.flip} :
           duration \in EndDraws.dur}
NormalPublished ==
    {ClampDrone(NormalReading(u, s)) : u \in EndDraws.u, s \in EndDraws.s}

\* C27: a reading the simulator published outside of a ballast event violates
\* no drone threshold but, at most, that of the turbidity, which is less than
\* ALERT_THRESHOLD = 3; and whenever data_logger has added a drone alert, the
\* reading it evaluated is one the ballast branch published, not one of the
\* normal variations.
C27_AlertOnlyDuringBallast ==
    /\ ALERT_THRESHOLD = 3
    /\ \A r \in NormalPublished : DroneViolated(r) \subseteq {"turbidity"}
    /\ (drone_last_update # 0 /\ ~ballast_event)
           => /\ latest_drone \in NormalPublished
              /\ DroneViolated(latest_drone) \subseteq {"turbidity"}
    /\ Alerts("drone") # {}
           => /\ drone_copy \in BallastPublished
              /\ drone_copy \notin NormalPublished

\* data_logger has added an alert for a reading of the middle of a ballast
\* event, and the simulator has since published a normal reading whose
\* turbidity is above its threshold.
C27_Witness ==
    /\ Alerts("drone") # {}
    /\ Cardinality(DroneViolated(drone_copy)) = 5
    /\ ~ballast_event
    /\ DroneViolated(latest_drone) = {"turbidity"}

(***************************************************************************)
(* buoy_data_simulator at the peak of the tide, and data_logger.           *)
(***************************************************************************)
\* The tide and the day are at an extreme and every random.uniform draw is
\* the upper end of its interval.
PeakDraws == [EndDraws EXCEPT !.u = {1}]

NextBuoyAlert ==
    \/ BuoyBegin(PeakDraws) /\ UNCHANGED not_buoy
    \/ BuoyWrite(PeakDraws) /\ UNCHANGED not_buoy
    \/ BuoyAux /\ UNCHANGED not_buoy
    \/ BuoyStamp /\ UNCHANGED not_buoy
    \/ LoggerAcquire /\ UNCHANGED not_logger
    \/ LoggerCopy /\ UNCHANGED not_logger
    \/ LoggerDroneCheck /\ UNCHANGED not_logger
    \/ LoggerBuoyAvailable /\ UNCHANGED not_logger
    \/ LoggerBuoyCheck /\ UNCHANGED not_logger
    \/ LoggerBuoyEntry /\ UNCHANGED not_logger
    \/ LoggerBuoyAlert /\ UNCHANGED not_logger
    \/ LoggerCommit /\ UNCHANGED not_logger

SpecBuoyAlert == Init /\ [][NextBuoyAlert]_vars

\* What lines 477-482 can assign to a channel, under the extreme draws.
BuoyPublished(channel) ==
    {BuoyValue(channel, tidal, diurnal, u) :
        tidal \in EndDraws.s, diurnal \in EndDraws.s, u \in EndDraws.u}

\* The channels of which some value of the simulator violates a threshold.
BuoyCanViolate ==
    {c \in BuoyChannels :
        \E v \in BuoyPublished(c) :
            IF c = "ph"
            THEN v < BUOY_PH_THRESHOLD_LOW \/ v > BUOY_PH_THRESHOLD_HIGH
            ELSE BuoyViolates(c, v)}

\* C28: of the six buoy channels only the turbidity and the pressure have
\* simulator values that violate their thresholds, which is less than
\* ALERT_THRESHOLD = 3; so whatever ticks the values data_logger reads come
\* from, its count stays below ALERT_THRESHOLD and it adds no buoy alert.
C28_NoBuoyAlert ==
    /\ ALERT_THRESHOLD = 3
    /\ BuoyCanViolate = {"turbidity", "pressure"}
    /\ logger_pc \in {"check", "entry", "alert", "commit"}
           => threshold_count < ALERT_THRESHOLD
    /\ Alerts("buoy") = {}

\* data_logger has counted two violations, the turbidity and the pressure,
\* on values of two different ticks, and has added the record without alert.
C28_Witness ==
    /\ logger_pc = "commit"
    /\ buoy_data_available
    /\ threshold_count = 2
    /\ ~above_threshold
    /\ Len(session) = 1
    /\ \E c, d \in BuoyChannels : latest_buoy[c].t # latest_buoy[d].t

(***************************************************************************)
(* A SimulationServer that has been running for max_history - 1 or         *)
(* max_history iterations of each loop.  Its first iteration came within 2 *)
(* seconds of the construction and moved nothing; each later one came      *)
(* after a sleep and moved the drone once, in generate_data (line 430),    *)
(* and not again in get_serial_data (line 431).                            *)
(***************************************************************************)
\* update_position, lines 82-105, on a drone given as a record.
FlownOnce(drone) ==
    LET target == waypoints[drone.current_waypoint + 1]
        lat_d == target.lat - drone.latitude
        lon_d == target.lon - drone.longitude
        squared == lat_d * lat_d + lon_d * lon_d
    IN  IF squared > arrival_distance * arrival_distance
        THEN [drone EXCEPT
                 !.latitude = @ + (lat_d * move_distance) \div Sqrt(squared),
                 !.longitude = @ + (lon_d * move_distance) \div Sqrt(squared),
                 !.battery = Drained(@)]
        ELSE [drone EXCEPT !.current_waypoint = (@ + 1) % Len(waypoints)]
\* update_position called `moves` times, more than 2 seconds apart; the first
\* half of the calls is computed before the second one is begun.
RECURSIVE Flown(_, _)
Flown(drone, moves) ==
    IF moves = 0 THEN drone
    ELSE IF moves = 1 THEN FlownOnce(drone)
    ELSE LET half == Flown(drone, moves \div 2)
         IN  IF half.battery >= 0 THEN Flown(half, moves - moves \div 2) ELSE half

\* The dataset of an iteration that began `back` iterations ago, with no noise
\* and no anomaly drawn.
EarlierData(unit, back) ==
    LET calm == [s |-> 0, u |-> 0, late |-> FALSE, anomaly |-> FALSE,
                 kind |-> "turbidity_spike", f |-> 0, tide |-> 0]
        data == IF unit = "drone" THEN DroneData(calm) ELSE BuoyData(calm)
    IN  [data EXCEPT !.timestamp = Datetime(0 - back * SleepSeconds(unit, FALSE))]
EarlierHistory(unit, ticks) == [i \in 1 .. ticks |-> EarlierData(unit, ticks - i + 1)]

InitHistory ==
    /\ AppInit
    /\ TimeInit
    /\ \E ticks \in [Units -> {max_history - 1, max_history}] :
           LET drone == Flown([latitude |-> waypoints[1].lat,
                               longitude |-> waypoints[1].lon,
                               battery |-> 85000, current_waypoint |-> 0],
                              ticks["drone"] - 1)
           IN  /\ latitude = drone.latitude
               /\ longitude = drone.longitude
               /\ battery = drone.battery
               /\ current_waypoint = drone.current_waypoint
               /\ data_history = [u \in Units |-> EarlierHistory(u, ticks[u])]
               /\ generated = [u \in Units |-> EarlierData(u, 1)]
    /\ pressure_base_value = TidePressure(0)
    /\ loop_wake = [u \in Units |-> 0]
    /\ api_response = [u \in Units |-> NoResponse]
    /\ serial_data = [u \in Units |-> get_serial_data(EarlierData(u, 1))]
    /\ running = TRUE
    /\ serial_port \in [Units -> {"None", "open"}]
    /\ loop_pc = [u \in Units |-> "while"]

NextHistory ==
    \/ Advance(MaxClock) /\ UNCHANGED <<app_vars, time_vars, sim_vars>>
    \/ \E unit \in Units : LoopWhile(unit) /\ UNCHANGED not_server
    \/ \E unit \in Units : LoopGenerate(unit, LateDraws) /\ UNCHANGED not_server
    \/ \E unit \in Units : LoopSerialData(unit, SoonDraws) /\ UNCHANGED not_server
    \/ \E unit \in Units : LoopAppend(unit) /\ UNCHANGED not_server
    \/ \E unit \in Units : LoopIsOpen(unit) /\ UNCHANGED not_server
    \/ \E unit \in Units : LoopWrite(unit) /\ UNCHANGED not_server
    \/ \E unit \in Units : LoopSleep(unit) /\ UNCHANGED not_server

SpecHistory == InitHistory /\ [][NextHistory]_vars

\* C29: each iteration of a SimulationServer loop leaves its unit's history
\* with at most max_history datasets, the newest being the one generated in
\* this iteration and the others the latest of the history before it, in their
\* order: a history that held max_history datasets has lost its oldest one and
\* no other, a shorter one has lost none; the timestamps ascend.
C29_HistoryKeepsTheLatest ==
    [][\A unit \in Units :
           loop_pc[unit] = "append" /\ loop_pc'[unit] = "is_open" =>
               LET old == data_history[unit]
                   new == data_history'[unit]
                   lost == Len(old) + 1 - Len(new)
               IN  /\ Len(new) = Min(Len(old) + 1, max_history)
                   /\ new[Len(new)] = generated[unit]
                   /\ \A i \in 1 .. Len(new) - 1 : new[i] = old[i + lost]
                   /\ StrictlyIncreasing(Timestamps(new))]_vars

\* The drone loop has appended twice, to a history that was full at the second
\* append at the latest.
C29_Witness ==
    /\ loop_pc["drone"] = "is_open"
    /\ Len(data_history["drone"]) = max_history
    /\ data_history["drone"][max_history - 1].timestamp.t >= 0
    /\ data_history["drone"][max_history] = generated["drone"]

(***************************************************************************)
(* A started SimulationServer whose generate_data calls draw their noise   *)
(* and their anomaly, in the loop (lines 430, 460) and in get_serial_data  *)
(* (lines 159, 326) alike.                                                 *)
(***************************************************************************)
WireDraws ==
    [s |-> {0, 1000}, u |-> {0}, late |-> {FALSE}, anomaly |-> BOOLEAN,
     kind |-> {"turbidity_spike"}, f |-> {0}, tide |-> {0}]

NextWire ==
    \/ Advance(WakeLimit) /\ UNCHANGED <<app_vars, time_vars, sim_vars>>
    \/ \E unit \in Units : TicksLeft(unit) /\ LoopWhile(unit) /\ UNCHANGED not_server
    \/ \E unit \in Units : LoopGenerate(unit, WireDraws) /\ UNCHANGED not_server
    \/ \E unit \in Units : LoopSerialData(unit, WireDraws) /\ UNCHANGED not_server
    \/ \E unit \in Units : LoopAppend(unit) /\ UNCHANGED not_server
    \/ \E unit \in Units : LoopIsOpen(unit) /\ UNCHANGED not_server
    \/ \E unit \in Units : LoopWrite(unit) /\ UNCHANGED not_server
    \/ \E unit \in Units : LoopSleep(unit) /\ UNCHANGED not_server

SpecWire == InitStarted /\ [][NextWire]_vars

\* C30: the line an iteration writes to the serial port is the line of the
\* dataset that the iteration has appended to the history.
C30_LineOfTheAppendedReading ==
    \A unit \in Units :
        loop_pc[unit] = "write" =>
            serial_data[unit] = get_serial_data(Latest(data_history[unit]))

====
